---- MODULE Spec2Model ----
(***************************************************************************)
(* Model of the connection routing and lifecycle subsystem of               *)
(* dgcore-database: Manager (manager.go), ReadWritePlugin (read/write       *)
(* routing plugin) and connectWithRetry (retry.go).                         *)
(* Handles are opaque values; establishment outcomes, random draws and     *)
(* command texts are inputs.                                               *)
(***************************************************************************)
EXTENDS Integers, Sequences, FiniteSets, TLC

\* ------------------------------------------------------------------ bounds
MaxSlaves == 2      \* configured slaves per Manager
MaxCalls == 4       \* calls of selectSlave followed per run
MaxThreads == 2     \* goroutines calling selectSlave concurrently
MaxOpens == 2       \* named handles established at run time, per run
MaxCloses == 2      \* calls of Manager.Close followed per run
MaxWorkers == 2     \* goroutines adding and removing a connection of their own
MaxTries == 3       \* largest RetryConfig.MaxAttempts

\* Weight values a ConnectionConfig is given (0 = unset)
Weights == {0, 1, 3}

\* ------------------------------------------------------------------ handles
\* *gorm.DB handles owned by the Manager; id is the index in config.Slaves
primaryH == [role |-> "primary", id |-> 0]
masterH == [role |-> "master", id |-> 0]
slaveH(i) == [role |-> "slave", id |-> i]
NoHandle == [role |-> "none", id |-> 0]
\* the n-th handle connectWithConfig established for a named connection
connH(n) == [role |-> "conn", id |-> n]

\* Statement.ConnPool: the pool of a handle, or a *sql.Tx begun on it
Pool(h) == [tx |-> FALSE, h |-> h]
TxOn(h) == [tx |-> TRUE, h |-> h]
IsTx(cp) == cp.tx

VARIABLES
    config,      \* Manager.config: the fields the routing code reads
    reach,       \* per configured slave: does connectWithConfig succeed
    db,          \* Manager.db, the primary handle
    master,      \* Manager.master
    slaves,      \* Manager.slaves, the established slaves in order
    plugin,      \* Manager.plugin != nil: routing callbacks registered on master
    slaveIndex,  \* Manager.slaveIndex, the round-robin cursor
    nSelect,     \* number of selectSlave calls made since construction
    last,        \* the last Manager / plugin call: its inputs and outcome
    stmt,        \* db.Statement of the session in use: ConnPool, Context, its origin
    pc,          \* per goroutine: position inside selectSlave
    loc,         \* per goroutine: locals of selectSlave
    slaveMu,     \* Manager.slaveMu: 0 when free, else the holder
    observed,    \* cursor values read by the concurrent calls, in order
    sql,         \* Statement.SQL handed to isWriteOperation
    verdict,     \* result of isWriteOperation on sql
    up,          \* do the primary and the master answer, does auto migration pass
    named,       \* Config.Connections: per configured name, does it answer
    newErr,      \* the error NewManager returned ("" for nil)
    connections, \* Manager.connections: name -> handle
    closes,      \* per established handle: number of sqlDB.Close() calls on it
    connMu,      \* Manager.connMu: the writer holding it (0: none) and the readers
    reg,         \* the last registry or lifecycle call: its inputs and outcome
    retry,       \* connectWithRetry: its inputs, position, locals and effects
    health,      \* the last health call: the probe answers it got and its result
    pool,        \* pool limits set on the last primary and the last other connection
    mig          \* the migrations table, the Migrator's list and its last call

topoVars == <<config, reach, db, master, slaves, plugin>>
selVars == <<slaveIndex, nSelect, last>>
concVars == <<pc, loc, slaveMu, observed>>
textVars == <<sql, verdict>>
envVars == <<up, named, newErr>>
regVars == <<connections, closes, connMu, reg>>
lifeVars == <<envVars, regVars, retry, health, pool, mig>>
vars == <<config, reach, db, master, slaves, plugin, slaveIndex, nSelect, last, stmt,
          pc, loc, slaveMu, observed, sql, verdict,
          up, named, newErr, connections, closes, connMu, reg, retry, health, pool, mig>>

\* ------------------------------------------------------------------ command texts
\* A command text is the sequence of its characters.
kwINSERT == <<"I", "N", "S", "E", "R", "T">>
kwUPDATE == <<"U", "P", "D", "A", "T", "E">>
kwDELETE == <<"D", "E", "L", "E", "T", "E">>
kwCREATE == <<"C", "R", "E", "A", "T", "E">>
kwALTER == <<"A", "L", "T", "E", "R">>
kwDROP == <<"D", "R", "O", "P">>
kwSELECT == <<"S", "E", "L", "E", "C", "T">>
kwSHOW == <<"S", "H", "O", "W">>
kwDESCRIBE == <<"D", "E", "S", "C", "R", "I", "B", "E">>
kwEXPLAIN == <<"E", "X", "P", "L", "A", "I", "N">>
kwWITH == <<"W", "I", "T", "H">>
tblSqliteMaster == <<"s", "q", "l", "i", "t", "e", "_", "m", "a", "s", "t", "e", "r">>
tblSqliteTempMaster == <<"s", "q", "l", "i", "t", "e", "_", "t", "e", "m", "p", "_", "m", "a", "s", "t", "e", "r">>
tblInformationSchema == <<"i", "n", "f", "o", "r", "m", "a", "t", "i", "o", "n", "_", "s", "c", "h", "e", "m", "a">>
tblPgCatalog == <<"p", "g", "_", "c", "a", "t", "a", "l", "o", "g">>

LowerLetters == <<"a", "b", "c", "d", "e", "f", "g", "h", "i", "j", "k", "l", "m", "n", "o", "p", "q", "r", "s", "t", "u", "v", "w", "x", "y", "z">>
UpperLetters == <<"A", "B", "C", "D", "E", "F", "G", "H", "I", "J", "K", "L", "M", "N", "O", "P", "Q", "R", "S", "T", "U", "V", "W", "X", "Y", "Z">>
ToLowerChar(c) ==
    IF \E i \in 1..26 : UpperLetters[i] = c
    THEN LowerLetters[CHOOSE i \in 1..26 : UpperLetters[i] = c] ELSE c
ToUpperChar(c) ==
    IF \E i \in 1..26 : LowerLetters[i] = c
    THEN UpperLetters[CHOOSE i \in 1..26 : LowerLetters[i] = c] ELSE c
ToLower(t) == [i \in 1..Len(t) |-> ToLowerChar(t[i])]
ToUpper(t) == [i \in 1..Len(t) |-> ToUpperChar(t[i])]

\* writeKeywords of isWriteOperation, in the order the loop visits them
writeKeywords == <<kwINSERT, kwUPDATE, kwDELETE, kwCREATE, kwALTER, kwDROP>>

\* isWriteOperation as if it compared without regard to case (strings.EqualFold)
isWriteOperationFold(text) ==
    IF text = <<>> THEN FALSE
    ELSE \E k \in 1..Len(writeKeywords) :
            /\ Len(text) >= Len(writeKeywords[k])
            /\ ToUpper(SubSeq(text, 1, Len(writeKeywords[k]))) = writeKeywords[k]

\* isWriteOperation(db): sql == "" -> false; true at the first keyword that is
\* a byte-exact prefix of sql; false when the loop ends
isWriteOperation(text) ==
    IF text = <<>> THEN FALSE
    ELSE \E k \in 1..Len(writeKeywords) :
            /\ Len(text) >= Len(writeKeywords[k])
            /\ SubSeq(text, 1, Len(writeKeywords[k])) = writeKeywords[k]

\* systemTables of routeRead
systemTables == <<tblSqliteMaster, tblSqliteTempMaster, tblInformationSchema, tblPgCatalog>>

\* contains(s, substr): substr occurs in s
contains(s, substr) ==
    \E i \in 0..(Len(s) - Len(substr)) : SubSeq(s, i + 1, i + Len(substr)) = substr

\* the systemTables loop of routeRead: some table name occurs in sql
involvesSystemTable(text) ==
    \E k \in 1..Len(systemTables) : contains(text, systemTables[k])

\* Texts handed to the classifier: every prefix of every write keyword, the
\* keywords in lower case and capitalised, read verbs, a leading blank and a
\* leading WITH, each followed by one of a few tails.
Prefixes(t) == {SubSeq(t, 1, n) : n \in 0..Len(t)}
Capitalised(t) == [i \in 1..Len(t) |-> IF i = 1 THEN t[i] ELSE ToLowerChar(t[i])]
WriteVerbSet == {writeKeywords[k] : k \in 1..Len(writeKeywords)}
ReadVerbSet == {kwSELECT, kwSHOW, kwDESCRIBE, kwEXPLAIN}
Heads ==
    UNION {Prefixes(w) : w \in WriteVerbSet}
    \cup {ToLower(w) : w \in WriteVerbSet}
    \cup {Capitalised(w) : w \in WriteVerbSet}
    \cup ReadVerbSet
    \cup {<<" ">> \o kwINSERT, kwWITH \o <<" ", "x", " ">> \o kwINSERT}
Tails ==
    {<<>>, <<" ", "I", "N", "T", "O", " ", "t">>, <<" ", "*", " ", "F", "R", "O", "M", " ", "t">>,
     <<" ">> \o tblSqliteMaster}
Texts == {h \o t : h \in Heads, t \in Tails}

\* ------------------------------------------------------------------ construction
Strategies == {"round-robin", "random", "weighted", ""}

SlaveConfigs == UNION {[1..n -> [Weight : Weights]] : n \in 0..MaxSlaves}

Configs ==
    [ReadWriteSplitting : BOOLEAN, AutoRouting : BOOLEAN, SlaveStrategy : Strategies,
     MasterHost : BOOLEAN, Slaves : SlaveConfigs]

\* connectSlaves giving up at the first slave that does not answer
RECURSIVE connectSlavesAbort(_, _, _)
connectSlavesAbort(rch, i, acc) ==
    IF i > Len(rch) THEN acc
    ELSE IF rch[i] THEN connectSlavesAbort(rch, i + 1, Append(acc, slaveH(i - 1)))
         ELSE acc

\* the slave loop of setupReadWriteSplitting: a slave that fails to connect is
\* skipped, the others are appended in configuration order
RECURSIVE connectSlaves(_, _, _)
connectSlaves(rch, i, acc) ==
    IF i > Len(rch) THEN acc
    ELSE connectSlaves(rch, i + 1, IF rch[i] THEN Append(acc, slaveH(i - 1)) ELSE acc)

\* DefaultConfig(): the routing fields
DefaultConfig ==
    [ReadWriteSplitting |-> FALSE, AutoRouting |-> TRUE, SlaveStrategy |-> "round-robin",
     MasterHost |-> FALSE, Slaves |-> <<>>]

\* names a connection is registered under, in a fixed order
Names == <<"analytics", "cache">>
NameSet == {Names[i] : i \in 1..Len(Names)}
NameIndex(name) == CHOOSE i \in 1..Len(Names) : Names[i] = name
NoConnections == [n \in {} |-> NoHandle]
NoNames == [n \in {} |-> TRUE]

\* outcomes of the establishment attempts of the primary and the master and of
\* the auto migration of the primary ("off": none configured)
Outcomes == [primary : BOOLEAN, master : BOOLEAN, migrate : {"off", "ok", "fail"}]
AllUp == [primary |-> TRUE, master |-> TRUE, migrate |-> "off"]

\* setupPrimaryConnection: connect, then m.db = db and m.master = db, then the
\* configured auto migration
setupPrimaryConnection(u) ==
    IF ~u.primary
    THEN [err |-> "failed to connect to database", db |-> NoHandle, master |-> NoHandle]
    ELSE [err |-> IF u.migrate = "fail" THEN "auto migration failed" ELSE "",
          db |-> primaryH, master |-> primaryH]

\* setupReadWriteSplitting: the explicit master (an error when it does not
\* answer), the slave loop, the plugin
setupReadWriteSplitting(cfg, rch, u, mst) ==
    IF cfg.MasterHost /\ ~u.master
    THEN [err |-> "failed to connect to master", master |-> mst, slaves |-> <<>>,
          plugin |-> FALSE]
    ELSE [err |-> "",
          master |-> IF cfg.MasterHost THEN masterH ELSE mst,
          slaves |-> connectSlaves(rch, 1, <<>>),
          plugin |-> cfg.AutoRouting]

\* setupNamedConnections: a name that fails to connect is skipped, the others
\* are stored under their name
setupNamedConnections(nm) ==
    [n \in {x \in DOMAIN nm : nm[x]} |-> connH(NameIndex(n))]

\* NewManager: the error it returns and the Manager it leaves (none on error)
NoManager(e) ==
    [err |-> e, db |-> NoHandle, master |-> NoHandle, slaves |-> <<>>, plugin |-> FALSE,
     connections |-> NoConnections]
NewManager(cfg, rch, u, nm) ==
    LET p == setupPrimaryConnection(u)
        rw == setupReadWriteSplitting(cfg, rch, u, p.master)
    IN  IF p.err # "" THEN NoManager(p.err)
        ELSE IF cfg.ReadWriteSplitting /\ rw.err # "" THEN NoManager(rw.err)
        ELSE [err |-> "", db |-> p.db,
              master |-> IF cfg.ReadWriteSplitting THEN rw.master ELSE p.master,
              slaves |-> IF cfg.ReadWriteSplitting THEN rw.slaves ELSE <<>>,
              plugin |-> IF cfg.ReadWriteSplitting THEN rw.plugin ELSE FALSE,
              connections |-> setupNamedConnections(nm)]

\* the handles a Manager holds: primary, master, slaves, registry entries
Owned(m) ==
    ({m.db, m.master} \ {NoHandle})
    \cup {m.slaves[i] : i \in 1..Len(m.slaves)}
    \cup {m.connections[n] : n \in DOMAIN m.connections}

\* ------------------------------------------------------------------ slave selection
Returned(h, idx) == [h |-> h, panic |-> FALSE, idx |-> idx]
\* an index out of range: the call panics, the deferred Unlock runs
Panicked(idx) == [h |-> NoHandle, panic |-> TRUE, idx |-> idx]

RECURSIVE sumWeights(_, _)
sumWeights(cs, i) == IF i > Len(cs) THEN 0 ELSE cs[i].Weight + sumWeights(cs, i + 1)
totalWeight(cfg) == sumWeights(cfg.Slaves, 1)

\* the cumulative scan of selectWeightedSlave over config.Slaves; the index it
\* stops at is used on m.slaves
RECURSIVE weightedScan(_, _, _, _, _, _)
weightedScan(cs, sl, r, i, cumulative, idx) ==
    IF i > Len(cs) THEN Returned(sl[1], idx)
    ELSE IF r < cumulative + cs[i].Weight
         THEN (IF i <= Len(sl) THEN Returned(sl[i], idx) ELSE Panicked(idx))
         ELSE weightedScan(cs, sl, r, i + 1, cumulative + cs[i].Weight, idx)

selectWeightedSlave(cfg, sl, idx, r) ==
    IF totalWeight(cfg) = 0 THEN Returned(sl[1], idx)
    ELSE weightedScan(cfg.Slaves, sl, r, 1, 0, idx)

\* the values rand.Intn can hand to one selectSlave call (0 when none is drawn)
Draws(cfg, sl) ==
    IF cfg.SlaveStrategy = "random" THEN 0..(Len(sl) - 1)
    ELSE IF cfg.SlaveStrategy = "weighted" /\ totalWeight(cfg) > 0
         THEN 0..(totalWeight(cfg) - 1)
         ELSE {0}

\* selectSlave advancing the cursor without wrapping it
selectSlaveNoWrap(cfg, sl, idx, r) ==
    IF cfg.SlaveStrategy = "round-robin"
    THEN Returned(sl[(idx % Len(sl)) + 1], idx + 1)
    ELSE IF cfg.SlaveStrategy = "random" THEN Returned(sl[r + 1], idx)
    ELSE IF cfg.SlaveStrategy = "weighted" THEN selectWeightedSlave(cfg, sl, idx, r)
    ELSE Returned(sl[1], idx)

\* selectSlave with the random strategy advancing the cursor as well
selectSlaveRandomAdvances(cfg, sl, idx, r) ==
    IF cfg.SlaveStrategy = "round-robin"
    THEN Returned(sl[idx + 1], (idx + 1) % Len(sl))
    ELSE IF cfg.SlaveStrategy = "random" THEN Returned(sl[r + 1], (idx + 1) % Len(sl))
    ELSE IF cfg.SlaveStrategy = "weighted" THEN selectWeightedSlave(cfg, sl, idx, r)
    ELSE Returned(sl[1], idx)

\* selectSlave with the cursor not advanced
selectSlaveStuck(cfg, sl, idx, r) ==
    IF cfg.SlaveStrategy = "round-robin" THEN Returned(sl[idx + 1], idx)
    ELSE IF cfg.SlaveStrategy = "random" THEN Returned(sl[r + 1], idx)
    ELSE IF cfg.SlaveStrategy = "weighted" THEN selectWeightedSlave(cfg, sl, idx, r)
    ELSE Returned(sl[1], idx)

\* selectSlave, the body under slaveMu: the handle returned and the cursor left
selectSlave(cfg, sl, idx, r) ==
    IF cfg.SlaveStrategy = "round-robin"
    THEN Returned(sl[idx + 1], (idx + 1) % Len(sl))
    ELSE IF cfg.SlaveStrategy = "random" THEN Returned(sl[r + 1], idx)
    ELSE IF cfg.SlaveStrategy = "weighted" THEN selectWeightedSlave(cfg, sl, idx, r)
    ELSE Returned(sl[1], idx)

\* ------------------------------------------------------------------ call record
NoCall ==
    [op |-> "none", kind |-> "", pre |-> Pool(NoHandle), post |-> Pool(NoHandle),
     skip |-> FALSE, text |-> <<>>, ret |-> NoHandle, panic |-> FALSE,
     draw |-> 0, idx0 |-> 0, selected |-> FALSE, index |-> 0]

\* ------------------------------------------------------------------ router
\* the context key routeRead and routeWrite look up; a statement has routing
\* disabled when its context holds true under it
skipRoutingKey == "dgcore:skip_routing"
ContextKeys == {"dgcore:skip_routing", "request_id"}
hasSkipRouting(key) == key = skipRoutingKey

\* the callbacks Initialize registers, by GORM processor
Initialize ==
    [query |-> "routeRead", create |-> "routeWrite", update |-> "routeWrite",
     delete |-> "routeWrite", raw |-> "routeWrite"]
WriteKinds == {k \in DOMAIN Initialize : Initialize[k] = "routeWrite"}

\* routeRead without the skip_routing check
routeReadNoSkip(st, text, cfg, sl, idx, r) ==
    LET keep == [ConnPool |-> st.ConnPool, selected |-> FALSE,
                 sel |-> Returned(NoHandle, idx)] IN
    IF isWriteOperation(text) THEN keep
    ELSE IF IsTx(st.ConnPool) THEN keep
    ELSE IF involvesSystemTable(text) THEN keep
    ELSE IF Len(sl) > 0
         THEN LET res == selectSlave(cfg, sl, idx, r) IN
              [ConnPool |-> IF res.panic THEN st.ConnPool ELSE Pool(res.h),
               selected |-> TRUE, sel |-> res]
         ELSE keep

\* routeRead without the transaction check
routeReadNoTx(st, text, cfg, sl, idx, r) ==
    LET keep == [ConnPool |-> st.ConnPool, selected |-> FALSE,
                 sel |-> Returned(NoHandle, idx)] IN
    IF st.skip THEN keep
    ELSE IF isWriteOperation(text) THEN keep
    ELSE IF involvesSystemTable(text) THEN keep
    ELSE IF Len(sl) > 0
         THEN LET res == selectSlave(cfg, sl, idx, r) IN
              [ConnPool |-> IF res.panic THEN st.ConnPool ELSE Pool(res.h),
               selected |-> TRUE, sel |-> res]
         ELSE keep

\* routeRead: the ConnPool it leaves on the statement, the selectSlave call it
\* makes (selected) and that call's outcome
routeRead(st, text, cfg, sl, idx, r) ==
    LET keep == [ConnPool |-> st.ConnPool, selected |-> FALSE,
                 sel |-> Returned(NoHandle, idx)] IN
    IF st.skip THEN keep
    ELSE IF isWriteOperation(text) THEN keep
    ELSE IF IsTx(st.ConnPool) THEN keep
    ELSE IF involvesSystemTable(text) THEN keep
    ELSE IF Len(sl) > 0
         THEN LET res == selectSlave(cfg, sl, idx, r) IN
              [ConnPool |-> IF res.panic THEN st.ConnPool ELSE Pool(res.h),
               selected |-> TRUE, sel |-> res]
         ELSE keep

\* routeWrite as a no-op: master is taken to be the statement's connection
routeWriteNoop(st, mst) == st.ConnPool

\* routeWrite: the ConnPool it leaves on the statement
routeWrite(st, mst) ==
    IF st.skip THEN st.ConnPool
    ELSE IF IsTx(st.ConnPool) THEN st.ConnPool
    ELSE IF mst # NoHandle THEN Pool(mst)
    ELSE st.ConnPool

\* ------------------------------------------------------------------ Manager, one caller
RouteTexts ==
    {<<>>, kwSELECT \o <<" ", "t">>, kwINSERT \o <<" ", "t">>,
     ToLower(kwINSERT) \o <<" ", "t">>, kwDROP,
     kwWITH \o <<" ", "x", " ">> \o kwINSERT}
    \cup {kwSELECT \o <<" ">> \o systemTables[k] : k \in 1..Len(systemTables)}

\* the Manager NewManager(config, nil) returns when the targets answer as reach,
\* up and named say; no handle of it has been closed
Constructed ==
    LET m == NewManager(config, reach, up, named) IN
    /\ newErr = m.err
    /\ db = m.db
    /\ master = m.master
    /\ slaves = m.slaves
    /\ plugin = m.plugin
    /\ connections = m.connections
    /\ closes = [h \in Owned(m) |-> 0]

\* NewManager has returned a Manager
Built == newErr = "" /\ db # NoHandle

\* primary and master answer, no named connection is configured
PlainEnv ==
    /\ up = AllUp
    /\ named = NoNames

\* a free RWMutex
FreeRW == [w |-> 0, r |-> {}]

NoRegCall ==
    [op |-> "none", name |-> "", ok |-> FALSE, err |-> "", ret |-> NoHandle, has |-> FALSE,
     old |-> NoHandle, made |-> NoHandle, pre |-> NoConnections, preCloses |-> <<>>]

\* no connectWithRetry call: durations in microseconds, BackoffFactor in tenths,
\* the error of attempt k written k (0: nil)
NoRetry ==
    [pc |-> "off", Enabled |-> FALSE, MaxAttempts |-> 0, InitialDelay |-> 0,
     MaxDelay |-> 0, BackoffFactor |-> 10, downFor |-> 0, attempt |-> 0, delay |-> 0,
     lastErr |-> 0, tries |-> 0, trace |-> <<>>, err |-> [n |-> 0, cause |-> 0],
     ok |-> FALSE]

\* no connection established yet whose pool limits are observed
NoLimits == [role |-> "none", memory |-> FALSE, MaxOpenConns |-> 0, MaxIdleConns |-> 0]
NoPool == [primary |-> NoLimits, other |-> NoLimits]

\* no Migrator in use: an empty list, an empty migrations table, no call made
NoMigrator ==
    [list |-> <<>>, table |-> FALSE, ledger |-> <<>>, ups |-> <<>>, downs |-> <<>>,
     calls |-> 0, faulted |-> FALSE,
     last |-> [op |-> "none", err |-> "", ran |-> <<>>, pre |-> <<>>, fault |-> "none",
               routed |-> FALSE]]

\* no health call made
NoHealth ==
    [op |-> "none", probes |-> <<>>, report |-> <<>>, ok |-> FALSE, closed |-> FALSE,
     names |-> {}]

\* no registry call under way or made, no connectWithRetry call under way, no
\* health call made
NoLifecycle ==
    /\ connMu = FreeRW
    /\ reg = NoRegCall
    /\ retry = NoRetry
    /\ health = NoHealth
    /\ pool = NoPool
    /\ mig = NoMigrator

\* no goroutine is inside selectSlave
NoGoroutines ==
    /\ pc = <<>>
    /\ loc = <<>>
    /\ slaveMu = 0
    /\ observed = <<>>

\* no statement is being classified
NoText ==
    /\ sql = <<>>
    /\ verdict = [done |-> FALSE, write |-> FALSE]

Init ==
    /\ config \in Configs
    /\ reach \in [1..Len(config.Slaves) -> BOOLEAN]
    /\ PlainEnv
    /\ Constructed
    /\ NoLifecycle
    /\ slaveIndex = 0
    /\ nSelect = 0
    /\ last = NoCall
    /\ stmt = [ConnPool |-> Pool(master), skip |-> FALSE, by |-> "DB"]
    /\ NoGoroutines
    /\ NoText

\* Manager.Read
Read ==
    /\ Built
    /\ nSelect < MaxCalls
    /\ IF ~config.ReadWriteSplitting \/ Len(slaves) = 0
       THEN /\ last' = [NoCall EXCEPT !.op = "Read", !.ret = master, !.idx0 = slaveIndex]
            /\ UNCHANGED <<slaveIndex, nSelect>>
       ELSE \E r \in Draws(config, slaves) :
                LET res == selectSlave(config, slaves, slaveIndex, r) IN
                /\ slaveIndex' = res.idx
                /\ nSelect' = nSelect + 1
                /\ last' = [NoCall EXCEPT !.op = "Read", !.ret = res.h, !.panic = res.panic,
                                          !.draw = r, !.idx0 = slaveIndex, !.selected = TRUE]
    /\ UNCHANGED <<lifeVars, topoVars, stmt, concVars, textVars>>

\* Manager.selectSlave called directly (callers check len(slaves) > 0 first)
SelectSlaveCall ==
    /\ nSelect < MaxCalls
    /\ Len(slaves) > 0
    /\ \E r \in Draws(config, slaves) :
          LET res == selectSlave(config, slaves, slaveIndex, r) IN
          /\ slaveIndex' = res.idx
          /\ nSelect' = nSelect + 1
          /\ last' = [NoCall EXCEPT !.op = "selectSlave", !.ret = res.h, !.panic = res.panic,
                                    !.draw = r, !.idx0 = slaveIndex, !.selected = TRUE]
    /\ UNCHANGED <<lifeVars, topoVars, stmt, concVars, textVars>>

\* Manager.DB: a new statement chain starts on the master handle
DB ==
    /\ stmt' = [ConnPool |-> Pool(master), skip |-> FALSE, by |-> "DB"]
    /\ last' = NoCall
    /\ UNCHANGED <<lifeVars, topoVars, slaveIndex, nSelect, concVars, textVars>>

\* Manager.AutoMigrate: a session of master whose context carries skip_routing
AutoMigrate ==
    /\ stmt' = [ConnPool |-> Pool(master), skip |-> hasSkipRouting("dgcore:skip_routing"),
                by |-> "AutoMigrate"]
    /\ last' = NoCall
    /\ UNCHANGED <<lifeVars, topoVars, slaveIndex, nSelect, concVars, textVars>>

\* Manager.Transaction: fn gets a handle whose ConnPool is a *sql.Tx on master
Transaction ==
    /\ stmt' = [ConnPool |-> TxOn(master), skip |-> FALSE, by |-> "Transaction"]
    /\ last' = NoCall
    /\ UNCHANGED <<lifeVars, topoVars, slaveIndex, nSelect, concVars, textVars>>

\* WithTransactionContext(ctx, db, fn) on the handle in use: db.WithContext(ctx)
\* replaces the statement's context (ctx holds true under some key), Transaction
\* begins a *sql.Tx on the statement's pool (or stays in the running one)
WithTransactionContext ==
    /\ \E key \in ContextKeys :
          stmt' = [ConnPool |-> IF IsTx(stmt.ConnPool) THEN stmt.ConnPool
                                ELSE TxOn(stmt.ConnPool.h),
                   skip |-> hasSkipRouting(key), by |-> stmt.by]
    /\ last' = NoCall
    /\ UNCHANGED <<lifeVars, topoVars, slaveIndex, nSelect, concVars, textVars>>

\* the handle the statement's session was derived from: Migrate builds its
\* Migrator on m.db, every other entry point starts from m.master
StmtOn(st) == IF st.by = "Migrate" THEN db ELSE master

\* a query runs on the statement in use: GORM calls dgcore:route_read, which
\* setupReadWriteSplitting registered on m.master
Query ==
    /\ plugin
    /\ StmtOn(stmt) = master
    /\ \E text \in RouteTexts, r \in Draws(config, slaves) :
          LET out == routeRead(stmt, text, config, slaves, slaveIndex, r) IN
          /\ stmt' = [stmt EXCEPT !.ConnPool = out.ConnPool]
          /\ slaveIndex' = out.sel.idx
          /\ last' = [op |-> "routeRead", kind |-> "query", pre |-> stmt.ConnPool,
                      post |-> out.ConnPool, skip |-> stmt.skip, text |-> text,
                      ret |-> out.sel.h, panic |-> out.sel.panic,
                      draw |-> IF out.selected THEN r ELSE 0,
                      idx0 |-> slaveIndex, selected |-> out.selected, index |-> 0]
    /\ UNCHANGED <<lifeVars, topoVars, nSelect, concVars, textVars>>

\* a create, update, delete or raw statement runs: GORM calls dgcore:route_write
Exec ==
    /\ plugin
    /\ StmtOn(stmt) = master
    /\ \E kind \in WriteKinds :
          /\ stmt' = [stmt EXCEPT !.ConnPool = routeWrite(stmt, master)]
          /\ last' = [NoCall EXCEPT !.op = Initialize[kind], !.kind = kind,
                                    !.pre = stmt.ConnPool,
                                    !.post = routeWrite(stmt, master),
                                    !.skip = stmt.skip, !.idx0 = slaveIndex]
    /\ UNCHANGED <<lifeVars, topoVars, slaveIndex, nSelect, concVars, textVars>>

Next ==
    \/ Read
    \/ SelectSlaveCall

Spec == Init /\ [][Next]_vars

\* Managers with the routing plugin registered: read/write splitting and
\* auto-routing on, any strategy, any slave outcome, weights unset or 1
RouteWeights == {0, 1}
InitRoute ==
    /\ config \in {c \in Configs :
                     /\ c.ReadWriteSplitting /\ c.AutoRouting
                     /\ \A i \in 1..Len(c.Slaves) : c.Slaves[i].Weight \in RouteWeights}
    /\ reach \in [1..Len(config.Slaves) -> BOOLEAN]
    /\ PlainEnv
    /\ Constructed
    /\ NoLifecycle
    /\ slaveIndex = 0
    /\ nSelect = 0
    /\ last = NoCall
    /\ stmt = [ConnPool |-> Pool(master), skip |-> FALSE, by |-> "DB"]
    /\ NoGoroutines
    /\ NoText

NextRoute ==
    \/ DB
    \/ AutoMigrate
    \/ Transaction
    \/ WithTransactionContext
    \/ Query
    \/ Exec

SpecRoute == InitRoute /\ [][NextRoute]_vars

\* ------------------------------------------------------------------ Manager, several goroutines
\* Each goroutine calls selectSlave once, statement by statement.
Threads == 1..MaxThreads
NoLocals == [slave |-> NoHandle, tmp |-> 0, ret |-> NoHandle]

\* sync.Mutex taken by nobody, whatever its state
LockedNever(mu) == FALSE

\* slaveMu is held: Lock blocks
Locked(mu) == mu # 0

\* round-robin Managers with at least one slave, after any number of earlier
\* selectSlave calls (the cursor is where those calls left it)
InitConc ==
    /\ config \in {c \in Configs :
                     /\ c.ReadWriteSplitting /\ c.SlaveStrategy = "round-robin"
                     /\ \A i \in 1..Len(c.Slaves) : c.Slaves[i].Weight = 0}
    /\ reach \in [1..Len(config.Slaves) -> BOOLEAN]
    /\ PlainEnv
    /\ Constructed
    /\ NoLifecycle
    /\ Len(slaves) > 0
    /\ nSelect \in 0..(Len(slaves) - 1)
    /\ slaveIndex = nSelect % Len(slaves)
    /\ last = NoCall
    /\ stmt = [ConnPool |-> Pool(master), skip |-> FALSE, by |-> "DB"]
    /\ pc = [t \in Threads |-> "idle"]
    /\ loc = [t \in Threads |-> NoLocals]
    /\ slaveMu = 0
    /\ observed = <<>>
    /\ NoText

\* the goroutine calls Read (splitting on, slaves present) or selectSlave
Call(t) ==
    /\ pc[t] = "idle"
    /\ pc' = [pc EXCEPT ![t] = "lock"]
    /\ UNCHANGED <<lifeVars, topoVars, selVars, stmt, loc, slaveMu, observed, textVars>>

\* m.slaveMu.Lock()
Lock(t) ==
    /\ pc[t] = "lock"
    /\ ~Locked(slaveMu)
    /\ slaveMu' = t
    /\ pc' = [pc EXCEPT ![t] = "read"]
    /\ UNCHANGED <<lifeVars, topoVars, selVars, stmt, loc, observed, textVars>>

\* slave := m.slaves[m.slaveIndex]
ReadSlave(t) ==
    /\ pc[t] = "read"
    /\ loc' = [loc EXCEPT ![t].slave = slaves[slaveIndex + 1]]
    /\ observed' = Append(observed, slaveIndex)
    /\ pc' = [pc EXCEPT ![t] = "load"]
    /\ UNCHANGED <<lifeVars, topoVars, selVars, stmt, slaveMu, textVars>>

\* m.slaveIndex = (m.slaveIndex + 1) % len(m.slaves): the read of the cursor
LoadIndex(t) ==
    /\ pc[t] = "load"
    /\ loc' = [loc EXCEPT ![t].tmp = slaveIndex]
    /\ pc' = [pc EXCEPT ![t] = "store"]
    /\ UNCHANGED <<lifeVars, topoVars, selVars, stmt, slaveMu, observed, textVars>>

\* m.slaveIndex = (m.slaveIndex + 1) % len(m.slaves): the write of the cursor
StoreIndex(t) ==
    /\ pc[t] = "store"
    /\ slaveIndex' = (loc[t].tmp + 1) % Len(slaves)
    /\ pc' = [pc EXCEPT ![t] = "return"]
    /\ UNCHANGED <<lifeVars, topoVars, nSelect, last, stmt, loc, slaveMu, observed, textVars>>

\* return slave, then the deferred m.slaveMu.Unlock()
Return(t) ==
    /\ pc[t] = "return"
    /\ loc' = [loc EXCEPT ![t].ret = loc[t].slave]
    /\ slaveMu' = 0
    /\ nSelect' = nSelect + 1
    /\ pc' = [pc EXCEPT ![t] = "done"]
    /\ UNCHANGED <<lifeVars, topoVars, slaveIndex, last, stmt, observed, textVars>>

NextConc ==
    \/ \E t \in Threads : Call(t)
    \/ \E t \in Threads : Lock(t)
    \/ \E t \in Threads : ReadSlave(t)
    \/ \E t \in Threads : LoadIndex(t)
    \/ \E t \in Threads : StoreIndex(t)
    \/ \E t \in Threads : Return(t)

SpecConc == InitConc /\ [][NextConc]_vars

\* ------------------------------------------------------------------ classifier runs
InitText ==
    /\ sql \in Texts
    /\ verdict = [done |-> FALSE, write |-> FALSE]
    /\ config = DefaultConfig
    /\ reach = <<>>
    /\ PlainEnv
    /\ Constructed
    /\ NoLifecycle
    /\ slaveIndex = 0
    /\ nSelect = 0
    /\ last = NoCall
    /\ stmt = [ConnPool |-> Pool(master), skip |-> FALSE, by |-> "DB"]
    /\ NoGoroutines

\* the caller renders a statement (Statement.SQL.WriteString)
BuildStatement ==
    /\ verdict.done
    /\ \E t \in Texts : sql' = t
    /\ verdict' = [done |-> FALSE, write |-> FALSE]
    /\ UNCHANGED <<lifeVars, topoVars, selVars, stmt, concVars>>

\* result := isWriteOperation(db)
CallIsWriteOperation ==
    /\ ~verdict.done
    /\ verdict' = [done |-> TRUE, write |-> isWriteOperation(sql)]
    /\ UNCHANGED <<lifeVars, sql, topoVars, selVars, stmt, concVars>>

NextText ==
    \/ BuildStatement
    \/ CallIsWriteOperation

SpecText == InitText /\ [][NextText]_vars

\* ------------------------------------------------------------------ registry and Close, one caller
\* handles established at run time so far (the configured ones come first)
RuntimeHandles(cl) == {h \in DOMAIN cl : h.role = "conn" /\ h.id > Len(Names)}
FreshHandle(cl) == connH(Len(Names) + Cardinality(RuntimeHandles(cl)) + 1)

\* sqlDB.Close() on each handle of hs
CloseAll(cl, hs) == [h \in DOMAIN cl |-> IF h \in hs THEN cl[h] + 1 ELSE cl[h]]

\* map delete
Delete(f, k) == [n \in DOMAIN f \ {k} |-> f[n]]

\* AddConnection that stores the new handle only under a name not yet taken
AddConnectionKeepFirst(conns, cl, name, ok) ==
    IF ~ok
    THEN [err |-> "failed to add connection", connections |-> conns, closes |-> cl,
          made |-> NoHandle]
    ELSE LET h == FreshHandle(cl) IN
         [err |-> "", connections |-> conns @@ (name :> h), closes |-> cl @@ (h :> 0),
          made |-> h]

\* AddConnection(name, config): connectWithConfig, then m.connections[name] = db
\* under connMu; an establishment error is returned before the lock is taken
AddConnection(conns, cl, name, ok) ==
    IF ~ok
    THEN [err |-> "failed to add connection", connections |-> conns, closes |-> cl,
          made |-> NoHandle]
    ELSE LET h == FreshHandle(cl) IN
         [err |-> "", connections |-> (name :> h) @@ conns, closes |-> cl @@ (h :> 0),
          made |-> h]

\* RemoveConnection that deletes the entry whether or not the name is registered
\* and reports no error
RemoveConnectionSilent(conns, cl, name) ==
    IF name \in DOMAIN conns
    THEN [err |-> "", connections |-> Delete(conns, name), closes |-> cl]
    ELSE [err |-> "", connections |-> conns, closes |-> cl]

\* RemoveConnection(name): close and delete a registered entry, else not found
RemoveConnection(conns, cl, name) ==
    IF name \in DOMAIN conns
    THEN [err |-> "", connections |-> Delete(conns, name),
          closes |-> CloseAll(cl, {conns[name]})]
    ELSE [err |-> "connection not found", connections |-> conns, closes |-> cl]

\* Connection that hands back no handle for an unknown name
ConnectionStrict(conns, primary, name) ==
    IF name \in DOMAIN conns THEN conns[name] ELSE NoHandle

\* Connection(name): the registered handle, else m.db
Connection(conns, primary, name) ==
    IF name \in DOMAIN conns THEN conns[name] ELSE primary

\* HasConnection(name)
HasConnection(conns, name) == name \in DOMAIN conns

\* Close(): sqlDB.Close() on m.db, on every slave and on every registry entry;
\* it returns nil
Close(primary, sl, conns, cl) ==
    CloseAll(cl, ({primary} \ {NoHandle})
                 \cup {sl[i] : i \in 1..Len(sl)}
                 \cup {conns[n] : n \in DOMAIN conns})

\* the record of a call made in the current state
RegCall(op, name) ==
    [NoRegCall EXCEPT !.op = op, !.name = name, !.pre = connections, !.preCloses = closes,
                      !.old = IF name \in DOMAIN connections THEN connections[name]
                              ELSE NoHandle]

CallAddConnection ==
    /\ Built
    /\ Cardinality(RuntimeHandles(closes)) < MaxOpens
    /\ \E name \in NameSet, ok \in BOOLEAN :
          LET out == AddConnection(connections, closes, name, ok) IN
          /\ connections' = out.connections
          /\ closes' = out.closes
          /\ reg' = [RegCall("AddConnection", name) EXCEPT !.ok = ok, !.err = out.err,
                                                           !.made = out.made]
    /\ UNCHANGED <<topoVars, selVars, stmt, concVars, textVars, envVars, connMu, retry, health, pool, mig>>

CallRemoveConnection ==
    /\ Built
    /\ \E name \in NameSet :
          LET out == RemoveConnection(connections, closes, name) IN
          /\ connections' = out.connections
          /\ closes' = out.closes
          /\ reg' = [RegCall("RemoveConnection", name) EXCEPT !.err = out.err]
    /\ UNCHANGED <<topoVars, selVars, stmt, concVars, textVars, envVars, connMu, retry, health, pool, mig>>

CallConnection ==
    /\ Built
    /\ \E name \in NameSet :
          reg' = [RegCall("Connection", name) EXCEPT
                     !.ret = Connection(connections, db, name)]
    /\ UNCHANGED <<topoVars, selVars, stmt, concVars, textVars, envVars, connections,
                   closes, connMu, retry, health, pool, mig>>

CallHasConnection ==
    /\ Built
    /\ \E name \in NameSet :
          reg' = [RegCall("HasConnection", name) EXCEPT
                     !.has = HasConnection(connections, name)]
    /\ UNCHANGED <<topoVars, selVars, stmt, concVars, textVars, envVars, connections,
                   closes, connMu, retry, health, pool, mig>>

CallClose ==
    /\ Built
    /\ closes[db] < MaxCloses
    /\ closes' = Close(db, slaves, connections, closes)
    /\ reg' = RegCall("Close", "")
    /\ UNCHANGED <<topoVars, selVars, stmt, concVars, textVars, envVars, connections,
                   connMu, retry, health, pool, mig>>

\* Managers built with read/write splitting on, an explicit master or none (then
\* master is the primary), two configured slaves with any outcome, and the first
\* name configured as a named connection or none
InitReg ==
    /\ config \in {c \in Configs :
                     /\ c.ReadWriteSplitting /\ c.AutoRouting
                     /\ c.SlaveStrategy = "round-robin"
                     /\ c.Slaves = <<[Weight |-> 0], [Weight |-> 0]>>}
    /\ reach \in [1..Len(config.Slaves) -> BOOLEAN]
    /\ up = AllUp
    /\ named \in {NoNames, [n \in {Names[1]} |-> TRUE]}
    /\ Constructed
    /\ NoLifecycle
    /\ slaveIndex = 0
    /\ nSelect = 0
    /\ last = NoCall
    /\ stmt = [ConnPool |-> Pool(master), skip |-> FALSE, by |-> "DB"]
    /\ NoGoroutines
    /\ NoText

NextReg ==
    \/ CallAddConnection
    \/ CallRemoveConnection
    \/ CallConnection
    \/ CallHasConnection
    \/ CallClose

SpecReg == InitReg /\ [][NextReg]_vars

\* ------------------------------------------------------------------ registry, several goroutines
\* TestManager_ConcurrentAccess: each worker adds a connection under a name of
\* its own, checks it and removes it; a reader looks up a name nobody registers.
Workers == 1..MaxWorkers
Reader == MaxWorkers + 1
Goroutines == Workers \cup {Reader}
\* fmt.Sprintf("conn_%d", id)
connName(id) == <<"conn_", id>>
DefaultName == <<"default">>

RegLocals ==
    [db |-> NoHandle, m |-> NoConnections, conn |-> NoHandle, exists |-> FALSE,
     addErr |-> "pending", has |-> FALSE, rmErr |-> "pending", ret |-> NoHandle]

\* a sync.RWMutex that never blocks
CanLockAlways(mu) == TRUE

\* connMu.Lock() can proceed: no writer and no reader holds it
CanLock(mu) == mu.w = 0 /\ mu.r = {}
\* connMu.RLock() can proceed: no writer holds it
CanRLock(mu) == mu.w = 0

InitRegConc ==
    /\ config = DefaultConfig
    /\ reach = <<>>
    /\ PlainEnv
    /\ Constructed
    /\ connMu = FreeRW
    /\ reg = NoRegCall
    /\ retry = NoRetry
    /\ health = NoHealth
    /\ pool = NoPool
    /\ mig = NoMigrator
    /\ slaveIndex = 0
    /\ nSelect = 0
    /\ last = NoCall
    /\ stmt = [ConnPool |-> Pool(master), skip |-> FALSE, by |-> "DB"]
    /\ pc = [t \in Goroutines |-> IF t = Reader THEN "connRLock" ELSE "connect"]
    /\ loc = [t \in Goroutines |-> RegLocals]
    /\ slaveMu = 0
    /\ observed = <<>>
    /\ NoText

RegConcFrame == <<topoVars, selVars, stmt, slaveMu, observed, textVars, envVars, reg, retry, health, pool, mig>>

\* AddConnection: db, err := connectWithConfig(config, m.logger)
AddConnect(t) ==
    /\ pc[t] = "connect"
    /\ loc' = [loc EXCEPT ![t].db = FreshHandle(closes)]
    /\ closes' = closes @@ (FreshHandle(closes) :> 0)
    /\ pc' = [pc EXCEPT ![t] = "addLock"]
    /\ UNCHANGED <<RegConcFrame, connections, connMu>>

\* m.connMu.Lock() of AddConnection and of RemoveConnection
WLock(t) ==
    /\ pc[t] \in {"addLock", "rmLock"}
    /\ CanLock(connMu)
    /\ connMu' = [connMu EXCEPT !.w = t]
    /\ pc' = [pc EXCEPT ![t] = IF pc[t] = "addLock" THEN "addLoad" ELSE "rmLookup"]
    /\ UNCHANGED <<RegConcFrame, connections, closes, loc>>

\* m.connections[name] = db: the map as the assignment finds it
AddLoad(t) ==
    /\ pc[t] = "addLoad"
    /\ loc' = [loc EXCEPT ![t].m = connections]
    /\ pc' = [pc EXCEPT ![t] = "addStore"]
    /\ UNCHANGED <<RegConcFrame, connections, closes, connMu>>

\* m.connections[name] = db: the map with the entry written
AddStore(t) ==
    /\ pc[t] = "addStore"
    /\ connections' = (connName(t) :> loc[t].db) @@ loc[t].m
    /\ pc' = [pc EXCEPT ![t] = "addUnlock"]
    /\ UNCHANGED <<RegConcFrame, closes, connMu, loc>>

\* m.connMu.Unlock(); return nil
AddUnlock(t) ==
    /\ pc[t] = "addUnlock"
    /\ connMu' = [connMu EXCEPT !.w = 0]
    /\ loc' = [loc EXCEPT ![t].addErr = ""]
    /\ pc' = [pc EXCEPT ![t] = "hasRLock"]
    /\ UNCHANGED <<RegConcFrame, connections, closes>>

\* m.connMu.RLock() of HasConnection and of Connection
RLock(t) ==
    /\ pc[t] \in {"hasRLock", "connRLock"}
    /\ CanRLock(connMu)
    /\ connMu' = [connMu EXCEPT !.r = @ \cup {t}]
    /\ pc' = [pc EXCEPT ![t] = IF pc[t] = "hasRLock" THEN "hasRead" ELSE "connRead"]
    /\ UNCHANGED <<RegConcFrame, connections, closes, loc>>

\* _, exists := m.connections[name]
HasRead(t) ==
    /\ pc[t] = "hasRead"
    /\ loc' = [loc EXCEPT ![t].exists =
                  HasConnection(connections, IF t = Reader THEN DefaultName ELSE connName(t))]
    /\ pc' = [pc EXCEPT ![t] = "hasRUnlock"]
    /\ UNCHANGED <<RegConcFrame, connections, closes, connMu>>

\* return exists, then the deferred m.connMu.RUnlock()
HasRUnlock(t) ==
    /\ pc[t] = "hasRUnlock"
    /\ connMu' = [connMu EXCEPT !.r = @ \ {t}]
    /\ loc' = [loc EXCEPT ![t].has = loc[t].exists]
    /\ pc' = [pc EXCEPT ![t] = IF t = Reader THEN "done" ELSE "rmLock"]
    /\ UNCHANGED <<RegConcFrame, connections, closes>>

\* conn, exists := m.connections[name] of Connection; else m.db
ConnRead(t) ==
    /\ pc[t] = "connRead"
    /\ loc' = [loc EXCEPT ![t].conn = Connection(connections, db, DefaultName)]
    /\ pc' = [pc EXCEPT ![t] = "connRUnlock"]
    /\ UNCHANGED <<RegConcFrame, connections, closes, connMu>>

\* return conn (or m.db), then the deferred m.connMu.RUnlock()
ConnRUnlock(t) ==
    /\ pc[t] = "connRUnlock"
    /\ connMu' = [connMu EXCEPT !.r = @ \ {t}]
    /\ loc' = [loc EXCEPT ![t].ret = loc[t].conn]
    /\ pc' = [pc EXCEPT ![t] = "hasRLock"]
    /\ UNCHANGED <<RegConcFrame, connections, closes>>

\* conn, exists := m.connections[name] of RemoveConnection
RmLookup(t) ==
    /\ pc[t] = "rmLookup"
    /\ loc' = [loc EXCEPT ![t].exists = connName(t) \in DOMAIN connections,
                          ![t].conn = IF connName(t) \in DOMAIN connections
                                      THEN connections[connName(t)] ELSE NoHandle]
    /\ pc' = [pc EXCEPT ![t] = IF connName(t) \in DOMAIN connections
                               THEN "rmClose" ELSE "rmUnlock"]
    /\ UNCHANGED <<RegConcFrame, connections, closes, connMu>>

\* sqlDB.Close()
RmClose(t) ==
    /\ pc[t] = "rmClose"
    /\ closes' = CloseAll(closes, {loc[t].conn})
    /\ pc' = [pc EXCEPT ![t] = "rmDelete"]
    /\ UNCHANGED <<RegConcFrame, connections, connMu, loc>>

\* delete(m.connections, name)
RmDelete(t) ==
    /\ pc[t] = "rmDelete"
    /\ connections' = Delete(connections, connName(t))
    /\ pc' = [pc EXCEPT ![t] = "rmUnlock"]
    /\ UNCHANGED <<RegConcFrame, closes, connMu, loc>>

\* return nil or the not-found error, then the deferred m.connMu.Unlock()
RmUnlock(t) ==
    /\ pc[t] = "rmUnlock"
    /\ connMu' = [connMu EXCEPT !.w = 0]
    /\ loc' = [loc EXCEPT ![t].rmErr = IF loc[t].exists THEN "" ELSE "connection not found"]
    /\ pc' = [pc EXCEPT ![t] = "done"]
    /\ UNCHANGED <<RegConcFrame, connections, closes>>

NextRegConc ==
    \/ \E t \in Workers : AddConnect(t)
    \/ \E t \in Workers : WLock(t)
    \/ \E t \in Workers : AddLoad(t)
    \/ \E t \in Workers : AddStore(t)
    \/ \E t \in Workers : AddUnlock(t)
    \/ \E t \in Goroutines : RLock(t)
    \/ \E t \in Goroutines : HasRead(t)
    \/ \E t \in Goroutines : HasRUnlock(t)
    \/ ConnRead(Reader)
    \/ ConnRUnlock(Reader)
    \/ \E t \in Workers : RmLookup(t)
    \/ \E t \in Workers : RmClose(t)
    \/ \E t \in Workers : RmDelete(t)
    \/ \E t \in Workers : RmUnlock(t)

SpecRegConc == InitRegConc /\ [][NextRegConc]_vars

\* ------------------------------------------------------------------ construction runs
\* before NewManager is called: a configuration and the way each target answers
InitNew ==
    /\ config \in {c \in Configs :
                     /\ c.SlaveStrategy = "round-robin"
                     /\ \A i \in 1..Len(c.Slaves) : c.Slaves[i].Weight = 0}
    /\ reach \in [1..Len(config.Slaves) -> BOOLEAN]
    /\ up \in Outcomes
    /\ named \in UNION {[ns -> BOOLEAN] : ns \in SUBSET NameSet}
    /\ newErr = ""
    /\ db = NoHandle
    /\ master = NoHandle
    /\ slaves = <<>>
    /\ plugin = FALSE
    /\ connections = NoConnections
    /\ closes = <<>>
    /\ NoLifecycle
    /\ slaveIndex = 0
    /\ nSelect = 0
    /\ last = NoCall
    /\ stmt = [ConnPool |-> Pool(NoHandle), skip |-> FALSE, by |-> "DB"]
    /\ NoGoroutines
    /\ NoText

\* manager, err := NewManager(config, logger)
CallNewManager ==
    /\ reg.op = "none"
    /\ LET m == NewManager(config, reach, up, named) IN
       /\ newErr' = m.err
       /\ db' = m.db
       /\ master' = m.master
       /\ slaves' = m.slaves
       /\ plugin' = m.plugin
       /\ connections' = m.connections
       /\ closes' = [h \in Owned(m) |-> 0]
       /\ stmt' = [ConnPool |-> Pool(m.master), skip |-> FALSE, by |-> "DB"]
       /\ reg' = [NoRegCall EXCEPT !.op = "NewManager", !.err = m.err]
    /\ UNCHANGED <<config, reach, up, named, selVars, concVars, textVars, connMu, retry, health, pool, mig>>

NextNew ==
    \/ CallNewManager
    \/ Read
    \/ CallConnection
    \/ CallHasConnection

SpecNew == InitNew /\ [][NextNew]_vars

\* ------------------------------------------------------------------ connectWithRetry
\* time.Duration values, in microseconds
Millisecond == 1000
Second == 1000 * Millisecond

\* RetryConfig values: the defaults (3 attempts, 100ms, 5s, factor 2.0), and
\* shorter delays, a low ceiling, an initial delay above that ceiling and
\* factor 1.5; BackoffFactor in tenths
RetryConfigs ==
    [Enabled : BOOLEAN, MaxAttempts : 1..MaxTries,
     InitialDelay : {100 * Millisecond, 50 * Millisecond, 200 * Millisecond},
     MaxDelay : {5 * Second, 1 * Second, 150 * Millisecond},
     BackoffFactor : {20, 15}]

\* time.Duration(float64(delay) * retryConfig.BackoffFactor), capped at MaxDelay
nextDelay(delay, factor, maxDelay) ==
    LET grown == (delay * factor) \div 10 IN
    IF grown > maxDelay THEN maxDelay ELSE grown

\* a sleep after every failed attempt, the last one included
sleepsAfterEvery(attempt, maxAttempts) == TRUE

\* attempt < retryConfig.MaxAttempts: a sleep follows the failed attempt
sleepsAfter(attempt, maxAttempts) == attempt < maxAttempts

Event(kind, v) == [ev |-> kind, v |-> v]

\* a connectWithRetry call about to start: the policy, and the number of
\* attempts the target fails before it answers (MaxTries + 1: every attempt the
\* loop can make fails; 0: it answers at once)
InitRetry ==
    /\ \E rc \in RetryConfigs, down \in 0..(MaxTries + 1) :
          retry = [NoRetry EXCEPT !.pc = "start", !.Enabled = rc.Enabled,
                                  !.MaxAttempts = rc.MaxAttempts,
                                  !.InitialDelay = rc.InitialDelay,
                                  !.MaxDelay = rc.MaxDelay,
                                  !.BackoffFactor = rc.BackoffFactor,
                                  !.downFor = down]
    /\ config = DefaultConfig
    /\ reach = <<>>
    /\ PlainEnv
    /\ Constructed
    /\ connMu = FreeRW
    /\ reg = NoRegCall
    /\ health = NoHealth
    /\ pool = NoPool
    /\ mig = NoMigrator
    /\ slaveIndex = 0
    /\ nSelect = 0
    /\ last = NoCall
    /\ stmt = [ConnPool |-> Pool(master), skip |-> FALSE, by |-> "DB"]
    /\ NoGoroutines
    /\ NoText

RetryFrame == <<topoVars, selVars, stmt, concVars, textVars, envVars, regVars, health, pool, mig>>

\* if !retryConfig.Enabled ... ; delay := retryConfig.InitialDelay; attempt := 1
RetryStart ==
    /\ retry.pc = "start"
    /\ retry' = IF ~retry.Enabled THEN [retry EXCEPT !.pc = "direct"]
                ELSE [retry EXCEPT !.pc = "loop", !.delay = retry.InitialDelay,
                                   !.attempt = 1, !.lastErr = 0]
    /\ UNCHANGED RetryFrame

\* retry disabled: return connectWithConfig(config, logger)
RetryDirect ==
    /\ retry.pc = "direct"
    /\ retry' = [retry EXCEPT !.pc = "done", !.tries = @ + 1,
                              !.trace = Append(@, Event("try", 1)),
                              !.ok = retry.downFor = 0,
                              !.err = IF retry.downFor = 0 THEN [n |-> 0, cause |-> 0]
                                      ELSE [n |-> 0, cause |-> 1]]
    /\ UNCHANGED RetryFrame

\* the loop stops one attempt short of MaxAttempts
attemptsRemainShort(attempt, maxAttempts) == attempt < maxAttempts

\* attempt <= retryConfig.MaxAttempts: the loop makes another attempt
attemptsRemain(attempt, maxAttempts) == attempt <= maxAttempts

\* for ...; attempt <= retryConfig.MaxAttempts; ...
RetryLoop ==
    /\ retry.pc = "loop"
    /\ retry' = [retry EXCEPT !.pc = IF attemptsRemain(retry.attempt, retry.MaxAttempts)
                                     THEN "try" ELSE "fail"]
    /\ UNCHANGED RetryFrame

\* db, err := connectWithConfig(config, logger); return db, nil on success,
\* else lastErr = err
RetryAttempt ==
    /\ retry.pc = "try"
    /\ retry' = IF retry.tries >= retry.downFor
                THEN [retry EXCEPT !.pc = "done", !.tries = @ + 1, !.ok = TRUE,
                                   !.trace = Append(@, Event("try", retry.attempt))]
                ELSE [retry EXCEPT !.pc = "check", !.tries = @ + 1,
                                   !.lastErr = retry.attempt,
                                   !.trace = Append(@, Event("try", retry.attempt))]
    /\ UNCHANGED RetryFrame

\* if attempt < retryConfig.MaxAttempts
RetryCheck ==
    /\ retry.pc = "check"
    /\ retry' = [retry EXCEPT !.pc = IF sleepsAfter(retry.attempt, retry.MaxAttempts)
                                     THEN "sleep" ELSE "inc"]
    /\ UNCHANGED RetryFrame

\* time.Sleep(delay)
RetrySleep ==
    /\ retry.pc = "sleep"
    /\ retry' = [retry EXCEPT !.pc = "backoff",
                              !.trace = Append(@, Event("sleep", retry.delay))]
    /\ UNCHANGED RetryFrame

\* delay = time.Duration(float64(delay) * BackoffFactor), capped at MaxDelay
RetryBackoff ==
    /\ retry.pc = "backoff"
    /\ retry' = [retry EXCEPT !.pc = "inc",
                              !.delay = nextDelay(retry.delay, retry.BackoffFactor,
                                                  retry.MaxDelay)]
    /\ UNCHANGED RetryFrame

\* attempt++
RetryInc ==
    /\ retry.pc = "inc"
    /\ retry' = [retry EXCEPT !.pc = "loop", !.attempt = @ + 1]
    /\ UNCHANGED RetryFrame

\* return nil, fmt.Errorf("failed to connect after %d attempts: %w",
\*                        retryConfig.MaxAttempts, lastErr)
RetryFail ==
    /\ retry.pc = "fail"
    /\ retry' = [retry EXCEPT !.pc = "done",
                              !.err = [n |-> retry.MaxAttempts, cause |-> retry.lastErr]]
    /\ UNCHANGED RetryFrame

NextRetry ==
    \/ RetryStart
    \/ RetryDirect
    \/ RetryLoop
    \/ RetryAttempt
    \/ RetryCheck
    \/ RetrySleep
    \/ RetryBackoff
    \/ RetryInc
    \/ RetryFail

SpecRetry == InitRetry /\ [][NextRetry]_vars

\* ================================================================== properties
Range(f) == {f[i] : i \in DOMAIN f}
RouterCall == last.op \in {"routeRead", "routeWrite"}

\* C1: with strategy round-robin and N >= 1 established slaves, the k-th
\* selectSlave call (k from 0, cursor starting at 0) returns slave k mod N, and
\* after M calls the cursor equals M mod N.
C1_RoundRobinSequence ==
    (config.SlaveStrategy = "round-robin" /\ Len(slaves) >= 1) =>
        /\ slaveIndex = nSelect % Len(slaves)
        /\ last.selected =>
              /\ ~last.panic
              /\ last.ret = slaves[((nSelect - 1) % Len(slaves)) + 1]

\* the third call on two slaves has wrapped around to slave 0
C1_Witness ==
    /\ config.SlaveStrategy = "round-robin"
    /\ Len(slaves) = 2
    /\ nSelect = 3
    /\ last.op = "selectSlave"
    /\ last.ret = slaves[1]
    /\ slaveIndex = 1

\* selectSlave calls made before the goroutines started
StartCalls == nSelect - Cardinality({t \in DOMAIN pc : pc[t] = "done"})

\* C2: concurrent round-robin calls each observe a distinct, advancing cursor
\* value: the j-th read of the cursor sees (start + j) mod N; when the K calls
\* have returned, the cursor has advanced by K mod N and the handles returned
\* are, as a multiset, those of K sequential calls.
C2_ConcurrentRoundRobin ==
    LET N == Len(slaves)
        c0 == StartCalls % N
        K == Cardinality(DOMAIN pc)
    IN  /\ \A j \in 1..Len(observed) : observed[j] = (c0 + j - 1) % N
        /\ (\A t \in DOMAIN pc : pc[t] = "done") =>
              /\ slaveIndex = (c0 + K) % N
              /\ \A h \in Range(slaves) :
                    Cardinality({t \in DOMAIN pc : loc[t].ret = h})
                    = Cardinality({j \in 0..(K - 1) : slaves[((c0 + j) % N) + 1] = h})

\* two goroutines have both returned, each with a different slave
C2_Witness ==
    /\ Len(slaves) >= 2
    /\ \A t \in DOMAIN pc : pc[t] = "done"
    /\ loc[1].ret # loc[2].ret
    /\ loc[1].ret # NoHandle

\* w_0 + ... + w_(i-1), and the lowest index whose cumulative weight exceeds r
RECURSIVE cumulativeWeight(_, _)
cumulativeWeight(cs, i) == IF i = 0 THEN 0 ELSE cs[i].Weight + cumulativeWeight(cs, i - 1)
LowestCovering(cs, r) ==
    CHOOSE i \in 1..Len(cs) :
        /\ cumulativeWeight(cs, i) > r
        /\ \A j \in 1..(i - 1) : cumulativeWeight(cs, j) <= r

\* C3: weighted selection returns slave 0 when the total weight is 0, and
\* otherwise, for the draw r, the slave with the lowest index i such that
\* w_0 + ... + w_i > r.
C3_WeightedSelection ==
    (config.SlaveStrategy = "weighted" /\ last.selected) =>
        IF cumulativeWeight(config.Slaves, Len(config.Slaves)) = 0
        THEN ~last.panic /\ last.ret = slaves[1]
        ELSE /\ ~last.panic
             /\ last.ret = slaveH(LowestCovering(config.Slaves, last.draw) - 1)

\* C4: Read returns master when splitting is off or no slave is established;
\* with splitting on and a slave established it returns an established slave
\* handle, never master.
C4_ReadReturnsSlave ==
    last.op = "Read" =>
        IF ~config.ReadWriteSplitting \/ Len(slaves) = 0
        THEN last.ret = master
        ELSE /\ ~last.panic
             /\ last.ret \in Range(slaves)
             /\ last.ret # master

\* C5: a write-path operation (create, update, delete, raw) outside a
\* transaction and without the skip flag is bound to master after routeWrite,
\* whatever it was bound to before.
C5_WriteForcesMaster ==
    (last.op = "routeWrite" /\ ~last.skip /\ ~IsTx(last.pre)) =>
        /\ last.post = Pool(master)
        /\ stmt.ConnPool = Pool(master)

\* a raw statement on a session an earlier read left on a slave
C5_Witness ==
    /\ last.op = "routeWrite"
    /\ last.kind = "raw"
    /\ ~last.skip
    /\ last.pre.h.role = "slave"
    /\ stmt.ConnPool = Pool(master)

\* C6: an operation bound to a transaction's connection keeps that binding
\* after routeRead and after routeWrite, and no slave is selected for it.
C6_TransactionKeepsBinding ==
    (RouterCall /\ IsTx(last.pre)) =>
        /\ last.post = last.pre
        /\ stmt.ConnPool = last.pre
        /\ ~last.selected
        /\ slaveIndex = last.idx0

\* a plain SELECT inside a transaction while slaves are established
C6_Witness ==
    /\ last.op = "routeRead"
    /\ IsTx(last.pre)
    /\ ~last.skip
    /\ last.text = kwSELECT \o <<" ", "t">>
    /\ Len(slaves) > 0
    /\ stmt.ConnPool = TxOn(master)

C8_ReadPathForcesMaster ==
    (/\ last.op = "routeRead"
     /\ ~last.skip
     /\ ~IsTx(last.pre)
     /\ (isWriteOperation(last.text) \/ involvesSystemTable(last.text))) =>
        /\ last.post = Pool(master)
        /\ ~last.selected
        /\ slaveIndex = last.idx0

\* C9: on the read path, an operation that is not routing-disabled, not in a
\* transaction, not a write verb and not a system-table query is bound, when a
\* slave is established, to the handle one selectSlave call returns (the
\* round-robin cursor advances by one); with no slave its binding is kept.
C9_ReadBindsSelectedSlave ==
    (/\ last.op = "routeRead"
     /\ ~last.skip
     /\ ~IsTx(last.pre)
     /\ ~isWriteOperation(last.text)
     /\ ~involvesSystemTable(last.text)) =>
        IF Len(slaves) > 0
        THEN /\ last.selected
             /\ last.ret \in Range(slaves)
             /\ last.post = Pool(last.ret)
             /\ config.SlaveStrategy = "round-robin" =>
                   slaveIndex = (last.idx0 + 1) % Len(slaves)
        ELSE /\ ~last.selected
             /\ last.post = last.pre

\* text t begins with the characters of w, compared one by one
BeginsWith(t, w) == Len(t) >= Len(w) /\ \A i \in 1..Len(w) : t[i] = w[i]
ClaimWriteVerbs == {kwINSERT, kwUPDATE, kwDELETE, kwCREATE, kwALTER, kwDROP}
ClaimReadVerbs == {kwSELECT, kwSHOW, kwDESCRIBE, kwEXPLAIN}

C11_AddClosesReplaced ==
    (reg.op = "AddConnection" /\ reg.err = "" /\ reg.old # NoHandle) =>
        /\ closes[reg.old] > 0
        /\ connections[reg.name] = reg.made

\* C12: RemoveConnection of a registered name closes that handle, deletes the
\* entry and returns no error; of an unregistered name it returns a not-found
\* error and leaves the registry and every handle unchanged. An AddConnection
\* whose establishment fails leaves the registry unchanged.
C12_RemoveAndFailedAdd ==
    /\ (reg.op = "RemoveConnection" /\ reg.old # NoHandle) =>
          /\ reg.err = ""
          /\ connections = [n \in DOMAIN reg.pre \ {reg.name} |-> reg.pre[n]]
          /\ \A h \in DOMAIN closes :
                closes[h] = reg.preCloses[h] + (IF h = reg.old THEN 1 ELSE 0)
    /\ (reg.op = "RemoveConnection" /\ reg.old = NoHandle) =>
          /\ reg.err = "connection not found"
          /\ connections = reg.pre
          /\ closes = reg.preCloses
    /\ (reg.op = "AddConnection" /\ ~reg.ok) =>
          /\ reg.err # ""
          /\ connections = reg.pre
          /\ closes = reg.preCloses

\* a connection added at run time has been removed while the other name stays
\* registered
C12_Witness ==
    /\ reg.op = "RemoveConnection"
    /\ reg.err = ""
    /\ reg.old.id > Len(Names)
    /\ closes[reg.old] = 1
    /\ reg.name \notin DOMAIN connections
    /\ DOMAIN connections # {}

\* C13: Connection(name) returns the registered handle when name is
\* registered; for an unregistered name, also one that was just removed, it
\* returns the primary handle, which is a handle and not nil.
C13_ConnectionFallsBack ==
    reg.op = "Connection" =>
        IF reg.name \in DOMAIN connections
        THEN reg.ret = connections[reg.name]
        ELSE reg.ret = db /\ reg.ret # NoHandle

\* Connection on the configured name after RemoveConnection removed it (Close
\* was never called, so only the removal closed its handle)
C13_Witness ==
    /\ reg.op = "Connection"
    /\ reg.name = Names[1]
    /\ reg.name \notin DOMAIN connections
    /\ connH(1) \in DOMAIN closes
    /\ closes[connH(1)] = 1
    /\ closes[db] = 0
    /\ reg.ret = primaryH

\* C14: after a successful AddConnection(x, p) and before any
\* RemoveConnection(x) or Close, HasConnection(x) is true and Connection(x)
\* returns the open handle established from p; after a successful
\* RemoveConnection(x), HasConnection(x) is false. Step by step: a successful
\* add registers the handle it established, open; an entry stays as it is over
\* every call other than Close, RemoveConnection of its name and a further
\* AddConnection of its name; HasConnection and Connection answer from the
\* registry; a successful removal leaves the name unregistered.
C14_AddedUntilRemoved ==
    [][LET op == reg'.op
           x == reg'.name
       IN  /\ (op = "AddConnection" /\ reg'.err = "") =>
                 /\ x \in DOMAIN connections'
                 /\ connections'[x] = reg'.made
                 /\ reg'.made \notin DOMAIN closes
                 /\ closes'[reg'.made] = 0
           /\ \A y \in DOMAIN connections :
                 (/\ op # "Close"
                  /\ ~(op = "RemoveConnection" /\ x = y)
                  /\ ~(op = "AddConnection" /\ x = y /\ reg'.err = "")) =>
                    /\ y \in DOMAIN connections'
                    /\ connections'[y] = connections[y]
                    /\ closes'[connections[y]] = closes[connections[y]]
           /\ op = "HasConnection" => reg'.has = (x \in DOMAIN connections)
           /\ (op = "Connection" /\ x \in DOMAIN connections) =>
                 reg'.ret = connections[x]
           /\ (op = "RemoveConnection" /\ reg'.err = "") => x \notin DOMAIN connections'
      ]_vars

\* HasConnection answers true for a name a second AddConnection re-registered
\* at run time, its handle still open
C14_Witness ==
    /\ reg.op = "HasConnection"
    /\ reg.has
    /\ reg.name \in DOMAIN connections
    /\ connections[reg.name].id = Len(Names) + 2
    /\ closes[connections[reg.name]] = 0
    /\ closes[connH(Len(Names) + 1)] = 0
    /\ connH(Len(Names) + 1) \notin {connections[n] : n \in DOMAIN connections}

\* C16: after Close() returns, every handle the Manager owns is closed: the
\* primary, the explicitly configured master, every established slave and every
\* named connection in the registry.
C16_CloseClosesEveryHandle ==
    reg.op = "Close" =>
        \A h \in ({db, master} \cup Range(slaves) \cup Range(connections)) : closes[h] > 0

\* C17: over any sequence of AddConnection, RemoveConnection and Close calls
\* (Close twice, RemoveConnection after Close) no handle's underlying close is
\* invoked more than once, and a second Close changes nothing.
C17_ClosedAtMostOnce ==
    /\ \A h \in DOMAIN closes : closes[h] <= 1
    /\ (reg.op = "Close" /\ reg.preCloses[db] > 0) => closes = reg.preCloses

\* positions of a worker between the store of its entry and the delete of it
Registered == {"addUnlock", "hasRLock", "hasRead", "hasRUnlock", "rmLock", "rmLookup",
               "rmClose", "rmDelete"}
AfterCheck == {"rmLock", "rmLookup", "rmClose", "rmDelete", "rmUnlock", "done"}

\* C15: when goroutines concurrently each add a connection under a name of
\* their own, check HasConnection for it and remove it, while another goroutine
\* calls Connection and HasConnection: every check between a goroutine's own
\* add and remove returns true, every add and remove succeeds, the registry
\* holds at every moment exactly the entries of the goroutines between their
\* add and their remove, and it is empty once all have finished.
C15_ConcurrentAddCheckRemove ==
    /\ \A t \in Workers :
          /\ pc[t] \in AfterCheck => loc[t].has
          /\ pc[t] \in ((Registered \ {"addUnlock"}) \cup AfterCheck) => loc[t].addErr = ""
          /\ pc[t] = "done" => loc[t].rmErr = ""
          /\ connName(t) \in DOMAIN connections <=> pc[t] \in Registered
          /\ pc[t] \in Registered => connections[connName(t)] = loc[t].db
    /\ DOMAIN connections \subseteq {connName(t) : t \in Workers}
    /\ pc[Reader] \in {"hasRLock", "hasRead", "hasRUnlock", "done"} => loc[Reader].ret = db
    /\ pc[Reader] = "done" => ~loc[Reader].has
    /\ (\A t \in Goroutines : pc[t] = "done") => DOMAIN connections = {}

\* all goroutines have finished: two workers saw their entry, each handle was
\* closed by its removal, the registry is empty
C15_Witness ==
    /\ \A t \in Goroutines : pc[t] = "done"
    /\ loc[1].has /\ loc[2].has
    /\ loc[1].db # loc[2].db
    /\ closes[loc[1].db] = 1 /\ closes[loc[2].db] = 1
    /\ DOMAIN connections = {}

\* NewManager has been called and has returned
NewManagerReturned == newErr # "" \/ db # NoHandle

\* C18: NewManager returns an error only if the primary cannot be established:
\* whatever the master, the slaves and the named connections answer, if the
\* primary is established (and its auto migration, when configured, passes)
\* NewManager returns no error and a usable Manager.
C18_OnlyPrimaryIsFatal ==
    (NewManagerReturned /\ up.primary /\ up.migrate # "fail") =>
        (newErr = "" /\ db = primaryH /\ master # NoHandle)

\* the established slaves, in configuration order
EstablishedInOrder ==
    /\ Range(slaves) = {slaveH(i - 1) : i \in {j \in 1..Len(reach) : reach[j]}}
    /\ \A i, j \in 1..Len(slaves) : i < j => slaves[i].id < slaves[j].id

\* C19: during NewManager a slave or named connection that fails to connect is
\* skipped and is not fatal: NewManager returns what it returns when all of them
\* answer; on success the slave list holds exactly the established slaves in
\* configuration order (none without read/write splitting), the registry holds
\* exactly the established named connections, and with no slave established
\* Read() returns master.
C19_FailuresAreSkipped ==
    NewManagerReturned =>
        /\ newErr = NewManager(config, [i \in 1..Len(reach) |-> TRUE], up,
                               [n \in DOMAIN named |-> TRUE]).err
        /\ newErr = "" =>
              /\ IF config.ReadWriteSplitting THEN EstablishedInOrder ELSE slaves = <<>>
              /\ DOMAIN connections = {n \in DOMAIN named : named[n]}
              /\ \A n \in DOMAIN connections : closes[connections[n]] = 0
              /\ (last.op = "Read" /\ Len(slaves) = 0) => last.ret = master

\* the first of two slaves and one of two named connections failed; the Manager
\* holds the others, and with both slaves down Read has returned the master
C19_Witness ==
    /\ newErr = ""
    /\ \/ /\ reach = <<FALSE, TRUE>>
          /\ slaves = <<slaveH(1)>>
          /\ DOMAIN named = NameSet
          /\ DOMAIN connections = {Names[2]}
       \/ /\ reach = <<FALSE, FALSE>>
          /\ config.ReadWriteSplitting
          /\ config.MasterHost
          /\ last.op = "Read"
          /\ last.ret = masterH

\* the sleeps of a trace, in order
Sleeps(tr) == SelectSeq(tr, LAMBDA e : e.ev = "sleep")

\* C20: with retry enabled and a target that fails on every attempt,
\* connectWithRetry makes exactly MaxAttempts attempts and MaxAttempts - 1
\* sleeps, each sleep between two attempts and none after the last attempt,
\* then returns an error that names MaxAttempts and wraps the error of the last
\* attempt; for MaxAttempts = 3, InitialDelay = 100ms, BackoffFactor = 2,
\* MaxDelay = 5s the sleeps are 100ms, then 200ms.
C20_RetryExhaustion ==
    (retry.pc = "done" /\ retry.Enabled /\ retry.downFor >= retry.MaxAttempts) =>
        /\ retry.tries = retry.MaxAttempts
        /\ Len(Sleeps(retry.trace)) = retry.MaxAttempts - 1
        /\ Len(retry.trace) = 2 * retry.MaxAttempts - 1
        /\ \A i \in 1..Len(retry.trace) :
              IF i % 2 = 1 THEN retry.trace[i] = Event("try", (i + 1) \div 2)
              ELSE retry.trace[i].ev = "sleep"
        /\ ~retry.ok
        /\ retry.err = [n |-> retry.MaxAttempts, cause |-> retry.MaxAttempts]
        /\ (/\ retry.MaxAttempts = 3 /\ retry.InitialDelay = 100 * Millisecond
            /\ retry.BackoffFactor = 20 /\ retry.MaxDelay = 5 * Second) =>
              Sleeps(retry.trace) = <<Event("sleep", 100 * Millisecond),
                                      Event("sleep", 200 * Millisecond)>>

\* the default policy against a target that never answers: three attempts,
\* sleeps of 100ms and 200ms between them, an error naming 3 attempts
C20_Witness ==
    /\ retry.pc = "done"
    /\ retry.Enabled
    /\ retry.downFor > 3
    /\ retry.trace = <<Event("try", 1), Event("sleep", 100000), Event("try", 2),
                       Event("sleep", 200000), Event("try", 3)>>
    /\ retry.err = [n |-> 3, cause |-> 3]

RECURSIVE Pow(_, _)
Pow(b, e) == IF e = 0 THEN 1 ELSE b * Pow(b, e - 1)

\* min(InitialDelay * BackoffFactor^(k-1), MaxDelay) in whole microseconds, the
\* factor in tenths
CappedDelay(initial, factor, maxDelay, k) ==
    LET grown == (initial * Pow(factor, k - 1)) \div Pow(10, k - 1) IN
    IF grown > maxDelay THEN maxDelay ELSE grown

\* C21: with retry enabled, the delay slept after the k-th failed attempt
\* (1 <= k < MaxAttempts) is min(InitialDelay * BackoffFactor^(k-1), MaxDelay),
\* for every policy with BackoffFactor > 1, policies whose InitialDelay exceeds
\* MaxDelay included; no sleep is longer than MaxDelay.
C21_SleepIsCappedBackoff ==
    retry.Enabled =>
        \A k \in 1..Len(Sleeps(retry.trace)) :
            /\ Sleeps(retry.trace)[k].v =
                   CappedDelay(retry.InitialDelay, retry.BackoffFactor, retry.MaxDelay, k)
            /\ Sleeps(retry.trace)[k].v <= retry.MaxDelay

\* C22: with retry enabled connectWithRetry returns success at the first
\* attempt that succeeds, making no further attempt and no further sleep; it
\* returns a handle if and only if one of its at most MaxAttempts attempts
\* succeeded, and an error and no handle otherwise; with retry disabled it makes
\* exactly one attempt and never sleeps.
C22_FirstSuccessReturns ==
    retry.pc = "done" =>
        IF retry.Enabled
        THEN /\ retry.ok <=> retry.downFor < retry.MaxAttempts
             /\ retry.tries <= retry.MaxAttempts
             /\ retry.ok =>
                   /\ retry.tries = retry.downFor + 1
                   /\ retry.trace[Len(retry.trace)] = Event("try", retry.downFor + 1)
                   /\ Len(Sleeps(retry.trace)) = retry.downFor
                   /\ retry.err = [n |-> 0, cause |-> 0]
             /\ ~retry.ok => retry.err.n = retry.MaxAttempts
        ELSE /\ retry.tries = 1
             /\ retry.trace = <<Event("try", 1)>>
             /\ retry.ok <=> retry.downFor = 0
             /\ retry.ok <=> retry.err = [n |-> 0, cause |-> 0]

\* a target that fails twice and then answers: the third attempt of three
\* succeeds after two sleeps and the call returns the handle
C22_Witness ==
    /\ retry.pc = "done"
    /\ retry.Enabled
    /\ retry.MaxAttempts = 3
    /\ retry.downFor = 2
    /\ retry.ok
    /\ retry.tries = 3
    /\ Len(Sleeps(retry.trace)) = 2

\* ------------------------------------------------------------------ accessors
\* Slave with an index past the end answered by the last slave
SlaveClamped(mst, sl, index) ==
    IF index < 0 \/ Len(sl) = 0 THEN mst
    ELSE IF index >= Len(sl) THEN sl[Len(sl)]
    ELSE sl[index + 1]

\* Manager.Slave: if index < 0 || index >= len(m.slaves) { return m.master };
\* return m.slaves[index]
Slave(mst, sl, index) ==
    IF index < 0 \/ index >= Len(sl) THEN mst ELSE sl[index + 1]

\* the indices callers pass: negative, every position, and past the end
Indices == (0 - 1)..(MaxSlaves + 1)

\* Manager.Write
CallWrite ==
    /\ Built
    /\ last' = [NoCall EXCEPT !.op = "Write", !.ret = master, !.idx0 = slaveIndex]
    /\ UNCHANGED <<lifeVars, topoVars, slaveIndex, nSelect, stmt, concVars, textVars>>

\* Manager.Master
CallMaster ==
    /\ Built
    /\ last' = [NoCall EXCEPT !.op = "Master", !.ret = master, !.idx0 = slaveIndex]
    /\ UNCHANGED <<lifeVars, topoVars, slaveIndex, nSelect, stmt, concVars, textVars>>

\* Manager.Slave(index)
CallSlave ==
    /\ Built
    /\ \E index \in Indices :
          last' = [NoCall EXCEPT !.op = "Slave", !.ret = Slave(master, slaves, index),
                                 !.idx0 = slaveIndex, !.index = index]
    /\ UNCHANGED <<lifeVars, topoVars, slaveIndex, nSelect, stmt, concVars, textVars>>

\* every Manager NewManager returns for a reachable primary and master: any
\* strategy, weights unset or 1, any slave outcome, no routing plugin (the
\* accessors do not read it), the first name configured (and
\* answering or not) or none
InitAcc ==
    /\ config \in {c \in Configs :
                     /\ ~c.AutoRouting
                     /\ \A i \in 1..Len(c.Slaves) : c.Slaves[i].Weight \in RouteWeights}
    /\ reach \in [1..Len(config.Slaves) -> BOOLEAN]
    /\ up = AllUp
    /\ named \in {NoNames} \cup [{Names[1]} -> BOOLEAN]
    /\ Constructed
    /\ NoLifecycle
    /\ slaveIndex = 0
    /\ nSelect = 0
    /\ last = NoCall
    /\ stmt = [ConnPool |-> Pool(master), skip |-> FALSE, by |-> "DB"]
    /\ NoGoroutines
    /\ NoText

NextAcc ==
    \/ Read
    \/ CallWrite
    \/ CallMaster
    \/ CallSlave
    \/ CallConnection

SpecAcc == InitAcc /\ [][NextAcc]_vars

\* the handles NewManager established and the Manager tracks
Established == {db, master} \cup Range(slaves) \cup Range(connections)

\* C23: for every constructed Manager (any strategy name, any weights, any
\* subset of slaves or named connections that failed to establish) and every
\* argument, Read(), Write(), Master(), Slave(index) and Connection(name) return
\* one of the Manager's established handles, without an error and without
\* panicking.
C23_AccessorsNeverFail ==
    /\ last.op \in {"Read", "Write", "Master", "Slave"} =>
          /\ ~last.panic
          /\ last.ret \in Established
    /\ reg.op = "Connection" =>
          /\ reg.err = ""
          /\ reg.ret \in Established

\* C24: Slave(index) returns the established slave at position index when
\* 0 <= index < number of established slaves, and the master handle for every
\* other index, without an error and without changing the round-robin cursor.
C24_SlaveFailsSoft ==
    last.op = "Slave" =>
        /\ ~last.panic
        /\ IF 0 <= last.index /\ last.index < Len(slaves)
           THEN last.ret = slaves[last.index + 1]
           ELSE last.ret = master
        /\ slaveIndex = last.idx0

\* Slave(2) on a Manager with two established slaves and an explicit master,
\* after a Read moved the cursor: the master is returned
C24_Witness ==
    /\ last.op = "Slave"
    /\ Len(slaves) = 2
    /\ last.index = 2
    /\ last.ret = master
    /\ master # db
    /\ slaveIndex > 0

\* ------------------------------------------------------------------ migrations
\* Manager.Migrate: NewMigrator(m.db); Up issues its statements on that handle
Migrate ==
    /\ stmt' = [ConnPool |-> Pool(db), skip |-> FALSE, by |-> "Migrate"]
    /\ last' = NoCall
    /\ UNCHANGED <<lifeVars, topoVars, slaveIndex, nSelect, concVars, textVars>>

\* Manager.Rollback: NewMigrator(m.master); Down issues its statements on that
\* handle
Rollback ==
    /\ stmt' = [ConnPool |-> Pool(master), skip |-> FALSE, by |-> "Rollback"]
    /\ last' = NoCall
    /\ UNCHANGED <<lifeVars, topoVars, slaveIndex, nSelect, concVars, textVars>>

\* every round-robin Manager NewManager returns for a reachable primary and
\* master, with or without read/write splitting, auto-routing and an explicit
\* master
InitMig ==
    /\ config \in {c \in Configs :
                     /\ c.SlaveStrategy = "round-robin"
                     /\ \A i \in 1..Len(c.Slaves) : c.Slaves[i].Weight \in RouteWeights}
    /\ reach \in [1..Len(config.Slaves) -> BOOLEAN]
    /\ PlainEnv
    /\ Constructed
    /\ NoLifecycle
    /\ slaveIndex = 0
    /\ nSelect = 0
    /\ last = NoCall
    /\ stmt = [ConnPool |-> Pool(master), skip |-> FALSE, by |-> "DB"]
    /\ NoGoroutines
    /\ NoText

NextMig ==
    \/ AutoMigrate
    \/ Migrate
    \/ Rollback
    \/ Query
    \/ Exec

SpecMig == InitMig /\ [][NextMig]_vars

Migrations == {"AutoMigrate", "Migrate", "Rollback"}

\* C25: AutoMigrate, Migrate and Rollback always execute on the master handle
\* with routing disabled: for every topology, one with an explicit master
\* distinct from the primary and with auto-routing and slaves active included,
\* every statement they issue is bound to master and none reaches a slave or a
\* non-master primary.
C25_MigrationsOnMaster ==
    stmt.by \in Migrations =>
        /\ stmt.skip
        /\ stmt.ConnPool = Pool(master)

\* the positions at which a goroutine is about to do blocking I/O: establishing
\* a connection (AddConnection) and closing a handle (RemoveConnection)
BlockingIO == {"connect", "rmClose"}

\* C26: no operation holds connMu or slaveMu while it does blocking I/O
\* (establishing a connection, pinging, closing a handle): AddConnection,
\* RemoveConnection, Close, HealthCheck, DetailedHealthCheck, AllStats and slave
\* selection do their I/O outside the critical section.
C26_NoLockAcrossIO ==
    \A t \in DOMAIN pc :
        pc[t] \in BlockingIO =>
            /\ connMu.w # t
            /\ t \notin connMu.r
            /\ slaveMu # t

\* ------------------------------------------------------------------ health
HealthStatusHealthy == "healthy"
HealthStatusDegraded == "degraded"
HealthStatusUnhealthy == "unhealthy"

\* the latency above which a handle that answers is degraded
DegradedAbove == 100 * Millisecond

\* what one probe of a handle meets: db.DB() failing (not for a handle that
\* gorm.Open returned), sqlDB.Ping() failing, and the time Ping took
\* (microseconds): at the threshold, or just above it
Latencies == {DegradedAbove, DegradedAbove + 1}
ProbeAnswers ==
    {[dbErr |-> FALSE, pingErr |-> TRUE, latency |-> DegradedAbove + 1]}
    \cup [dbErr : {FALSE}, pingErr : {FALSE}, latency : Latencies]

\* Ping on a handle whose sql.DB has been closed fails at once
ClosedAnswer == [dbErr |-> FALSE, pingErr |-> TRUE, latency |-> DegradedAbove + 1]

\* a closed handle answering like an open one
AnswersIgnoreClose(closeCount) == ProbeAnswers

\* the answers a handle can give: sqlDB.Close() was called on it, or not
Answers(closeCount) == IF closeCount > 0 THEN {ClosedAnswer} ELSE ProbeAnswers

\* Manager.ping: the error it returns ("" for nil)
ping(probe) ==
    IF probe.dbErr THEN "db" ELSE IF probe.pingErr THEN "ping" ELSE ""

\* checkConnectionHealth with the threshold itself counted as degraded
checkConnectionHealthInclusive(probe) ==
    IF probe.dbErr
    THEN [Status |-> HealthStatusUnhealthy, Latency |-> 0, Error |-> "failed to get sql.DB"]
    ELSE [Status |-> IF probe.pingErr THEN HealthStatusUnhealthy
                     ELSE IF probe.latency >= DegradedAbove THEN HealthStatusDegraded
                     ELSE HealthStatusHealthy,
          Latency |-> probe.latency,
          Error |-> IF probe.pingErr THEN "ping" ELSE ""]

\* checkConnectionHealth: the ConnectionHealth of one probe (Stats and
\* LastChecked left out)
checkConnectionHealth(probe) ==
    IF probe.dbErr
    THEN [Status |-> HealthStatusUnhealthy, Latency |-> 0, Error |-> "failed to get sql.DB"]
    ELSE [Status |-> IF probe.pingErr THEN HealthStatusUnhealthy
                     ELSE IF probe.latency > DegradedAbove THEN HealthStatusDegraded
                     ELSE HealthStatusHealthy,
          Latency |-> probe.latency,
          Error |-> IF probe.pingErr THEN "ping" ELSE ""]

\* fmt.Sprintf("slave_%d", i) for the slave at position i of the list (from 1)
slaveKey(i) == "slave_" \o ToString(i - 1)

\* the keys HealthCheck and DetailedHealthCheck write: "primary"; with
\* ReadWriteSplitting "master" and one key per slave; then every registered name
HealthKeys(cfg, sl, conns) ==
    {"primary"}
    \cup (IF cfg.ReadWriteSplitting
          THEN {"master"} \cup {slaveKey(i) : i \in 1..Len(sl)}
          ELSE {})
    \cup DOMAIN conns

\* the handle whose probe ends up under key k: the named connections are
\* written last
Target(k, primary, mst, sl, conns) ==
    IF k \in DOMAIN conns THEN conns[k]
    ELSE IF k = "primary" THEN primary
    ELSE IF k = "master" THEN mst
    ELSE sl[CHOOSE i \in 1..Len(sl) : slaveKey(i) = k]

\* Manager.HealthCheck: key -> m.ping(handle) == nil
HealthCheck(cfg, sl, conns, probes) ==
    [k \in HealthKeys(cfg, sl, conns) |-> ping(probes[k]) = ""]

\* Manager.DetailedHealthCheck: key -> ConnectionHealth
DetailedHealthCheck(cfg, sl, conns, probes) ==
    [k \in HealthKeys(cfg, sl, conns) |-> checkConnectionHealth(probes[k])]

\* IsHealthy failing on every entry that is not healthy
IsHealthyStrict(report) ==
    \A k \in DOMAIN report : report[k].Status = HealthStatusHealthy

\* IsHealthy over a report: false if an entry is unhealthy
IsHealthy(report) ==
    \A k \in DOMAIN report : report[k].Status # HealthStatusUnhealthy

\* IsFullyHealthy over a report: false if an entry is not healthy
IsFullyHealthy(report) ==
    \A k \in DOMAIN report : report[k].Status = HealthStatusHealthy

\* the probe answers one health call can meet in the current state
Probes ==
    LET keys == HealthKeys(config, slaves, connections) IN
    {p \in [keys -> ProbeAnswers] :
        \A k \in keys :
            p[k] \in Answers(closes[Target(k, db, master, slaves, connections)])}

HealthCall(op, probes, report, ok) ==
    [op |-> op, probes |-> probes, report |-> report, ok |-> ok,
     closed |-> closes[db] > 0, names |-> DOMAIN connections]

HealthFrame == <<topoVars, selVars, stmt, concVars, textVars, envVars, regVars, retry,
                 pool, mig>>

CallHealthCheck ==
    /\ Built
    /\ \E p \in Probes :
          health' = HealthCall("HealthCheck", p,
                               HealthCheck(config, slaves, connections, p), FALSE)
    /\ UNCHANGED HealthFrame

CallDetailedHealthCheck ==
    /\ Built
    /\ \E p \in Probes :
          health' = HealthCall("DetailedHealthCheck", p,
                               DetailedHealthCheck(config, slaves, connections, p), FALSE)
    /\ UNCHANGED HealthFrame

\* IsHealthy: health := m.DetailedHealthCheck(), then the scan
CallIsHealthy ==
    /\ Built
    /\ \E p \in Probes :
          LET report == DetailedHealthCheck(config, slaves, connections, p) IN
          health' = HealthCall("IsHealthy", p, report, IsHealthy(report))
    /\ UNCHANGED HealthFrame

\* IsFullyHealthy: health := m.DetailedHealthCheck(), then the scan
CallIsFullyHealthy ==
    /\ Built
    /\ \E p \in Probes :
          LET report == DetailedHealthCheck(config, slaves, connections, p) IN
          health' = HealthCall("IsFullyHealthy", p, report, IsFullyHealthy(report))
    /\ UNCHANGED HealthFrame

\* a plain Manager, or one with read/write splitting, an explicit master and
\* one configured slave that answers or not; the first name configured as a
\* named connection or none
InitHealth ==
    /\ config \in {c \in Configs :
                     /\ ~c.AutoRouting
                     /\ c.SlaveStrategy = "round-robin"
                     /\ \/ ~c.ReadWriteSplitting /\ ~c.MasterHost /\ c.Slaves = <<>>
                        \/ c.ReadWriteSplitting /\ c.MasterHost
                           /\ c.Slaves = <<[Weight |-> 0]>>}
    /\ reach \in [1..Len(config.Slaves) -> BOOLEAN]
    /\ up = AllUp
    /\ named \in {NoNames, [n \in {Names[1]} |-> TRUE]}
    /\ Constructed
    /\ NoLifecycle
    /\ slaveIndex = 0
    /\ nSelect = 0
    /\ last = NoCall
    /\ stmt = [ConnPool |-> Pool(master), skip |-> FALSE, by |-> "DB"]
    /\ NoGoroutines
    /\ NoText

NextHealth ==
    \/ CallHealthCheck
    \/ CallDetailedHealthCheck
    \/ CallIsHealthy
    \/ CallIsFullyHealthy
    \/ CallClose
    \/ CallRemoveConnection

SpecHealth == InitHealth /\ [][NextHealth]_vars

HealthReports == {"HealthCheck", "DetailedHealthCheck"}

\* C27: the result of HealthCheck and of DetailedHealthCheck contains an entry
\* named primary, an entry named master, an entry slave_i for each established
\* slave i, and an entry under its own name for each named connection, so the
\* number of entries equals the number of tracked handles for every
\* configuration and every set of registered names.
C27_OneEntryPerHandle ==
    health.op \in HealthReports =>
        /\ DOMAIN health.report =
               {"primary", "master"} \cup {slaveKey(i) : i \in 1..Len(slaves)}
               \cup health.names
        /\ Cardinality(DOMAIN health.report) =
               2 + Len(slaves) + Cardinality(health.names)

\* C28: checkConnectionHealth classifies a handle as unhealthy exactly when the
\* liveness probe errors, as degraded exactly when the probe succeeds and the
\* measured latency is strictly greater than 100ms, and as healthy otherwise
\* (exactly 100ms is healthy); the entry carries an error if and only if the
\* status is unhealthy.
C28_StatusFromProbe ==
    health.op = "DetailedHealthCheck" =>
        \A k \in DOMAIN health.report :
            LET probe == health.probes[k]
                entry == health.report[k]
                failed == probe.dbErr \/ probe.pingErr IN
            /\ entry.Status = HealthStatusUnhealthy <=> failed
            /\ entry.Status = HealthStatusDegraded <=>
                   (~failed /\ probe.latency > 100 * Millisecond)
            /\ entry.Status = HealthStatusHealthy <=>
                   (~failed /\ probe.latency <= 100 * Millisecond)
            /\ entry.Error # "" <=> entry.Status = HealthStatusUnhealthy

\* a report with a master answering in exactly 100ms (healthy), a slave
\* answering just above (degraded) and a primary whose probe fails (unhealthy)
C28_Witness ==
    /\ health.op = "DetailedHealthCheck"
    /\ "slave_0" \in DOMAIN health.report
    /\ health.probes["master"] =
           [dbErr |-> FALSE, pingErr |-> FALSE, latency |-> 100 * Millisecond]
    /\ health.report["master"].Status = HealthStatusHealthy
    /\ health.report["slave_0"].Status = HealthStatusDegraded
    /\ health.report["primary"].Status = HealthStatusUnhealthy

StatusCount(report, status) ==
    Cardinality({k \in DOMAIN report : report[k].Status = status})

\* C29: IsHealthy() is true exactly when no entry of a fresh health report is
\* unhealthy, and IsFullyHealthy() is true exactly when every entry is healthy;
\* on the same set of probe results IsFullyHealthy implies IsHealthy, and a
\* single degraded entry makes IsHealthy true and IsFullyHealthy false.
C29_AggregateBooleans ==
    /\ health.op = "IsHealthy" =>
          (health.ok <=> StatusCount(health.report, HealthStatusUnhealthy) = 0)
    /\ health.op = "IsFullyHealthy" =>
          (health.ok <=> StatusCount(health.report, HealthStatusHealthy) =
                             Cardinality(DOMAIN health.report))
    /\ health.op \in {"IsHealthy", "IsFullyHealthy"} =>
          LET report == health.report IN
          /\ IsFullyHealthy(report) => IsHealthy(report)
          /\ (/\ StatusCount(report, HealthStatusDegraded) = 1
              /\ StatusCount(report, HealthStatusUnhealthy) = 0) =>
                 IsHealthy(report) /\ ~IsFullyHealthy(report)

\* IsHealthy answers true on a report of three entries of which exactly one is
\* degraded and none unhealthy
C29_Witness ==
    /\ health.op = "IsHealthy"
    /\ health.ok
    /\ Cardinality(DOMAIN health.report) >= 3
    /\ StatusCount(health.report, HealthStatusDegraded) = 1
    /\ StatusCount(health.report, HealthStatusUnhealthy) = 0

\* every target of the call answered its probe without an error
AllAnswered == \A k \in DOMAIN health.probes : ping(health.probes[k]) = ""

C36_CursorInRange ==
    Len(slaves) >= 1 =>
        /\ 0 <= slaveIndex /\ slaveIndex < Len(slaves)
        /\ (last.selected /\ config.SlaveStrategy # "round-robin") =>
              slaveIndex = last.idx0
        /\ (last.selected /\ config.SlaveStrategy \notin {"round-robin", "random", "weighted"}) =>
              ~last.panic /\ last.ret = slaves[1]

\* a round-robin cursor that has wrapped to 0 on two slaves after two calls
C36_Witness ==
    /\ config.SlaveStrategy = "round-robin"
    /\ Len(slaves) = 2
    /\ nSelect = 2
    /\ slaveIndex = 0
    /\ last.idx0 = 1

\* C37: when some configured slaves failed to establish, selectWeightedSlave
\* still returns an element of the established slave list for every draw (it
\* never indexes past the end of that list), and the handle it returns is the
\* one established from the configuration entry whose weight interval contains
\* the draw.
C37_WeightedOnPartialTopology ==
    (/\ config.SlaveStrategy = "weighted" /\ last.selected
     /\ Len(slaves) < Len(config.Slaves)
     /\ cumulativeWeight(config.Slaves, Len(config.Slaves)) > 0) =>
        /\ ~last.panic
        /\ last.ret \in Range(slaves)
        /\ reach[LowestCovering(config.Slaves, last.draw)] =>
              last.ret = slaveH(LowestCovering(config.Slaves, last.draw) - 1)

\* ------------------------------------------------------------------ pool limits
\* the fields of Config and ConnectionConfig that decide the pool limits; a
\* *int override is written [set, v]
IntPtrs == {[set |-> FALSE, v |-> 0], [set |-> TRUE, v |-> 1], [set |-> TRUE, v |-> 5]}
PrimaryConfigs ==
    [Driver : {"sqlite", "mysql"}, Database : {":memory:", "app"},
     FilePath : {":memory:", ""}, MaxOpenConns : {100, 5}, MaxIdleConns : {10, 5}]
ConnectionConfigs ==
    [Driver : {"sqlite", "mysql"}, Database : {":memory:", "app"},
     FilePath : {":memory:", ""}, MaxOpenConns : IntPtrs, MaxIdleConns : IntPtrs]

\* the limits of a sql.DB nobody configured: no limit on open connections
\* (written 0), two idle connections
DefaultLimits == [MaxOpenConns |-> 0, MaxIdleConns |-> 2]

\* config.Driver == "sqlite" && (config.Database == ":memory:" ||
\* config.FilePath == ":memory:")
isMemory(c) == c.Driver = "sqlite" /\ (c.Database = ":memory:" \/ c.FilePath = ":memory:")

\* setupPrimaryConnection: the limits it sets on the primary's pool
primaryLimits(c) ==
    IF isMemory(c) THEN [MaxOpenConns |-> 1, MaxIdleConns |-> 1]
    ELSE [MaxOpenConns |-> c.MaxOpenConns, MaxIdleConns |-> c.MaxIdleConns]

\* connectWithConfig: the limits it sets, only where an override is configured
connectionLimits(c) ==
    [MaxOpenConns |-> IF c.MaxOpenConns.set THEN c.MaxOpenConns.v
                      ELSE DefaultLimits.MaxOpenConns,
     MaxIdleConns |-> IF c.MaxIdleConns.set THEN c.MaxIdleConns.v
                      ELSE DefaultLimits.MaxIdleConns]

\* the callers of connectWithConfig: setupReadWriteSplitting (master, slaves),
\* setupNamedConnections and AddConnection
ConnectionRoles == {"master", "slave", "named", "added"}

PoolFrame == <<topoVars, selVars, stmt, concVars, textVars, envVars, regVars, retry,
               health, mig>>

\* setupPrimaryConnection establishes the primary and configures its pool
SetupPrimaryPool ==
    \E c \in PrimaryConfigs :
        /\ pool' = [pool EXCEPT !.primary =
                       [role |-> "primary", memory |-> isMemory(c),
                        MaxOpenConns |-> primaryLimits(c).MaxOpenConns,
                        MaxIdleConns |-> primaryLimits(c).MaxIdleConns]]
        /\ UNCHANGED PoolFrame

\* connectWithConfig establishes a master, a slave or a named connection
ConnectWithConfigPool ==
    \E role \in ConnectionRoles, c \in ConnectionConfigs :
        /\ pool' = [pool EXCEPT !.other =
                       [role |-> role, memory |-> isMemory(c),
                        MaxOpenConns |-> connectionLimits(c).MaxOpenConns,
                        MaxIdleConns |-> connectionLimits(c).MaxIdleConns]]
        /\ UNCHANGED PoolFrame

InitPool ==
    /\ config = DefaultConfig
    /\ reach = <<>>
    /\ PlainEnv
    /\ Constructed
    /\ NoLifecycle
    /\ slaveIndex = 0
    /\ nSelect = 0
    /\ last = NoCall
    /\ stmt = [ConnPool |-> Pool(master), skip |-> FALSE, by |-> "DB"]
    /\ NoGoroutines
    /\ NoText

NextPool ==
    \/ SetupPrimaryPool
    \/ ConnectWithConfigPool

SpecPool == InitPool /\ [][NextPool]_vars

\* C34: whenever a connection to an embedded in-memory database is
\* established, for the primary, a slave, a master or a named connection alike
\* and whatever pool overrides are configured, its pool is limited to exactly 1
\* open and 1 idle connection.
C34_MemoryPoolIsOne ==
    \A e \in {pool.primary, pool.other} :
        (e.role # "none" /\ e.memory) => (e.MaxOpenConns = 1 /\ e.MaxIdleConns = 1)

\* C39: the registry never holds a closed handle: in every reachable state,
\* after any sequence of AddConnection, RemoveConnection and Close calls, every
\* name for which HasConnection returns true maps to an open handle, so
\* Connection(name) for a registered name never returns a closed handle.
C39_RegistryHoldsOpenHandles ==
    \A name \in NameSet :
        HasConnection(connections, name) =>
            closes[Connection(connections, db, name)] = 0

\* the handles the establishment attempts of NewManager succeeded on, in the
\* order of its setup steps: the primary; with read/write splitting the explicit
\* master and the slaves; then the named connections
establishedSlaves(rch) == {slaveH(i - 1) : i \in {j \in 1..Len(rch) : rch[j]}}
establishedNamed(nm) == {connH(NameIndex(n)) : n \in {x \in DOMAIN nm : nm[x]}}
EstablishedBy(cfg, rch, u, nm) ==
    IF ~u.primary THEN {}
    ELSE IF u.migrate = "fail" THEN {primaryH}
    ELSE IF ~cfg.ReadWriteSplitting THEN {primaryH} \cup establishedNamed(nm)
    ELSE IF cfg.MasterHost /\ ~u.master THEN {primaryH}
    ELSE {primaryH} \cup (IF cfg.MasterHost THEN {masterH} ELSE {})
         \cup establishedSlaves(rch) \cup establishedNamed(nm)

\* C40: in every reachable state each successfully established connection
\* handle is either closed or held by the Manager (as primary, master, a slave
\* or a registry entry); in particular when NewManager returns an error after
\* the primary was established (master connection failure or auto-migration
\* failure), the primary and every other handle established so far are closed.
C40_NoHandleLeaked ==
    (reg.op # "none") =>
        \A h \in EstablishedBy(config, reach, up, named) \cup DOMAIN closes :
            \/ h \in Established
            \/ (h \in DOMAIN closes /\ closes[h] > 0)

\* ------------------------------------------------------------------ frame of the calls
\* Manager.AllStats: the handle whose pool statistics end up under each key
\* (primary; with read/write splitting master and slave_<i>; then every name of
\* the registry, written last)
AllStats(cfg, d, mst, sl, conns) ==
    [k \in HealthKeys(cfg, sl, conns) |-> Target(k, d, mst, sl, conns)]

\* every tracked handle answering Ping below the degraded threshold
AnsweringProbes ==
    {[k \in HealthKeys(config, slaves, connections) |->
         [dbErr |-> FALSE, pingErr |-> FALSE, latency |-> DegradedAbove]]}

\* Manager.HealthCheck while every handle answers
CallHealthCheckAnswering ==
    /\ Built
    /\ \E p \in AnsweringProbes :
          health' = HealthCall("HealthCheck", p,
                               HealthCheck(config, slaves, connections, p), FALSE)
    /\ UNCHANGED HealthFrame

\* Manager.AllStats
CallAllStats ==
    /\ Built
    /\ health' = HealthCall("AllStats", <<>>,
                            AllStats(config, db, master, slaves, connections), FALSE)
    /\ UNCHANGED HealthFrame

\* a Manager with read/write splitting, the primary as master and two slaves
\* established, selecting round-robin or at random, no named connection
InitFrame ==
    /\ config \in {c \in Configs :
                     /\ c.ReadWriteSplitting /\ ~c.AutoRouting /\ ~c.MasterHost
                     /\ c.SlaveStrategy \in {"round-robin", "random"}
                     /\ c.Slaves = <<[Weight |-> 0], [Weight |-> 0]>>}
    /\ reach = [i \in 1..Len(config.Slaves) |-> TRUE]
    /\ PlainEnv
    /\ Constructed
    /\ NoLifecycle
    /\ slaveIndex = 0
    /\ nSelect = 0
    /\ last = NoCall
    /\ stmt = [ConnPool |-> Pool(master), skip |-> FALSE, by |-> "DB"]
    /\ NoGoroutines
    /\ NoText

NextFrame ==
    \/ Read
    \/ CallWrite
    \/ CallSlave
    \/ CallConnection
    \/ CallAddConnection
    \/ CallRemoveConnection
    \/ CallHealthCheckAnswering
    \/ CallAllStats

SpecFrame == InitFrame /\ [][NextFrame]_vars

\* C35: after construction the primary, the master and the slave list never
\* change: no step of Read, Write, Slave, Connection, AddConnection,
\* RemoveConnection or of a health or stats call alters them; only AddConnection
\* and RemoveConnection change the registry, and only a round-robin selection
\* changes the cursor.
C35_TopologyIsFrozen ==
    [][/\ db' = db /\ master' = master /\ slaves' = slaves
       /\ (connections' # connections) =>
              reg'.op \in {"AddConnection", "RemoveConnection"}
       /\ (slaveIndex' # slaveIndex) =>
              (last'.op = "Read" /\ last'.selected
               /\ config.SlaveStrategy = "round-robin")]_vars

C35_Witness ==
    /\ reg.op = "AddConnection" /\ reg.pre # connections
    /\ last.op = "Read" /\ last.selected /\ slaveIndex # last.idx0
    /\ health.op \in {"HealthCheck", "AllStats"}
    /\ db = primaryH /\ master = primaryH /\ Len(slaves) = 2

\* ------------------------------------------------------------------ connMu with a waiting writer
\* sync.RWMutex as Go implements it: Lock announces the writer and then waits
\* for the active readers to leave; an RLock made while a writer is announced or
\* holds the lock blocks until that writer has unlocked. r counts the read locks
\* each goroutine holds.
FreeRWMutex == [w |-> 0, r |-> [t \in Workers |-> 0], pending |-> {}]
RLockAdmits(mu) == mu.w = 0 /\ mu.pending = {}
LockAdmits(mu) == mu.w = 0 /\ \A t \in Workers : mu.r[t] = 0

\* the calls a goroutine makes on the Manager
CallOps == {"AllStats", "ConnectionStats", "HasConnection", "Connection",
            "AddConnection", "RemoveConnection"}
CallLocals ==
    [op |-> "none", name |-> "", inner |-> "", todo |-> {}, db |-> NoHandle,
     conn |-> NoHandle, exists |-> FALSE, result |-> {}]

\* a Manager with one named connection; every goroutine is about to make a call
InitStats ==
    /\ config = DefaultConfig
    /\ reach = <<>>
    /\ up = AllUp
    /\ named = [n \in {Names[1]} |-> TRUE]
    /\ Constructed
    /\ connMu = FreeRWMutex
    /\ reg = NoRegCall
    /\ retry = NoRetry
    /\ health = NoHealth
    /\ pool = NoPool
    /\ mig = NoMigrator
    /\ slaveIndex = 0
    /\ nSelect = 0
    /\ last = NoCall
    /\ stmt = [ConnPool |-> Pool(master), skip |-> FALSE, by |-> "DB"]
    /\ pc = [t \in Workers |-> "idle"]
    /\ loc = [t \in Workers |-> CallLocals]
    /\ slaveMu = 0
    /\ observed = <<>>
    /\ NoText

\* the goroutine enters one of the calls
BeginCall(t) ==
    /\ pc[t] = "idle"
    /\ \E op \in CallOps, name \in NameSet :
          /\ loc' = [loc EXCEPT ![t].op = op,
                                ![t].name = IF op = "AllStats" THEN "" ELSE name]
          /\ pc' = [pc EXCEPT ![t] =
                       CASE op = "AllStats" -> "asRLock"
                         [] op = "AddConnection" -> "establish"
                         [] op = "RemoveConnection" -> "announce"
                         [] OTHER -> "rdRLock"]
    /\ UNCHANGED <<RegConcFrame, connections, closes, connMu>>

\* AllStats: m.connMu.RLock(), then for name := range m.connections
AllStatsRLock(t) ==
    /\ pc[t] = "asRLock"
    /\ RLockAdmits(connMu)
    /\ connMu' = [connMu EXCEPT !.r[t] = @ + 1]
    /\ loc' = [loc EXCEPT ![t].todo = DOMAIN connections]
    /\ pc' = [pc EXCEPT ![t] = "asRange"]
    /\ UNCHANGED <<RegConcFrame, connections, closes>>

\* the loop of AllStats: result[name] = m.ConnectionStats(name) for the next
\* name, in the order the map hands them out
AllStatsRange(t) ==
    /\ pc[t] = "asRange"
    /\ loc[t].todo # {}
    /\ \E name \in loc[t].todo :
          loc' = [loc EXCEPT ![t].inner = name, ![t].todo = @ \ {name}]
    /\ pc' = [pc EXCEPT ![t] = "rdRLock"]
    /\ UNCHANGED <<RegConcFrame, connections, closes, connMu>>

\* AllStats: m.connMu.RUnlock(); return result
AllStatsRUnlock(t) ==
    /\ pc[t] = "asRange"
    /\ loc[t].todo = {}
    /\ connMu' = [connMu EXCEPT !.r[t] = @ - 1]
    /\ pc' = [pc EXCEPT ![t] = "done"]
    /\ UNCHANGED <<RegConcFrame, connections, closes, loc>>

\* m.connMu.RLock() of ConnectionStats, HasConnection and Connection
ReadRLock(t) ==
    /\ pc[t] = "rdRLock"
    /\ RLockAdmits(connMu)
    /\ connMu' = [connMu EXCEPT !.r[t] = @ + 1]
    /\ pc' = [pc EXCEPT ![t] = "rdRead"]
    /\ UNCHANGED <<RegConcFrame, connections, closes, loc>>

\* conn, exists := m.connections[name]
ReadEntry(t) ==
    /\ pc[t] = "rdRead"
    /\ LET name == IF loc[t].op = "AllStats" THEN loc[t].inner ELSE loc[t].name IN
       loc' = [loc EXCEPT ![t].exists = HasConnection(connections, name),
                          ![t].conn = Connection(connections, db, name)]
    /\ pc' = [pc EXCEPT ![t] = "rdRUnlock"]
    /\ UNCHANGED <<RegConcFrame, connections, closes, connMu>>

\* m.connMu.RUnlock(); ConnectionStats called by AllStats returns into the loop
ReadRUnlock(t) ==
    /\ pc[t] = "rdRUnlock"
    /\ connMu' = [connMu EXCEPT !.r[t] = @ - 1]
    /\ loc' = [loc EXCEPT ![t].result =
                  IF loc[t].op = "AllStats" THEN @ \cup {loc[t].inner} ELSE @]
    /\ pc' = [pc EXCEPT ![t] = IF loc[t].op = "AllStats" THEN "asRange" ELSE "done"]
    /\ UNCHANGED <<RegConcFrame, connections, closes>>

\* AddConnection: db, err := connectWithConfig(config, m.logger)
AddEstablish(t) ==
    /\ pc[t] = "establish"
    /\ loc' = [loc EXCEPT ![t].db = FreshHandle(closes)]
    /\ closes' = closes @@ (FreshHandle(closes) :> 0)
    /\ pc' = [pc EXCEPT ![t] = "announce"]
    /\ UNCHANGED <<RegConcFrame, connections, connMu>>

\* m.connMu.Lock(): the writer is announced, later RLock calls wait for it
LockAnnounce(t) ==
    /\ pc[t] = "announce"
    /\ connMu' = [connMu EXCEPT !.pending = @ \cup {t}]
    /\ pc' = [pc EXCEPT ![t] = "acquire"]
    /\ UNCHANGED <<RegConcFrame, connections, closes, loc>>

\* m.connMu.Lock() returns: no reader and no writer holds the lock
LockAcquire(t) ==
    /\ pc[t] = "acquire"
    /\ LockAdmits(connMu)
    /\ connMu' = [connMu EXCEPT !.w = t, !.pending = @ \ {t}]
    /\ pc' = [pc EXCEPT ![t] = IF loc[t].op = "AddConnection" THEN "addWrite"
                               ELSE "rmEntry"]
    /\ UNCHANGED <<RegConcFrame, connections, closes, loc>>

\* m.connections[name] = db
AddWrite(t) ==
    /\ pc[t] = "addWrite"
    /\ connections' = (loc[t].name :> loc[t].db) @@ connections
    /\ pc' = [pc EXCEPT ![t] = "release"]
    /\ UNCHANGED <<RegConcFrame, closes, connMu, loc>>

\* RemoveConnection under the lock: look the name up, close, delete
RemoveEntry(t) ==
    /\ pc[t] = "rmEntry"
    /\ LET out == RemoveConnection(connections, closes, loc[t].name) IN
       /\ connections' = out.connections
       /\ closes' = out.closes
       /\ loc' = [loc EXCEPT ![t].exists = out.err = ""]
    /\ pc' = [pc EXCEPT ![t] = "release"]
    /\ UNCHANGED <<RegConcFrame, connMu>>

\* the deferred m.connMu.Unlock()
LockRelease(t) ==
    /\ pc[t] = "release"
    /\ connMu' = [connMu EXCEPT !.w = 0]
    /\ pc' = [pc EXCEPT ![t] = "done"]
    /\ UNCHANGED <<RegConcFrame, connections, closes, loc>>

NextStats ==
    \/ \E t \in Workers : BeginCall(t)
    \/ \E t \in Workers : AllStatsRLock(t)
    \/ \E t \in Workers : AllStatsRange(t)
    \/ \E t \in Workers : AllStatsRUnlock(t)
    \/ \E t \in Workers : ReadRLock(t)
    \/ \E t \in Workers : ReadEntry(t)
    \/ \E t \in Workers : ReadRUnlock(t)
    \/ \E t \in Workers : AddEstablish(t)
    \/ \E t \in Workers : LockAnnounce(t)
    \/ \E t \in Workers : LockAcquire(t)
    \/ \E t \in Workers : AddWrite(t)
    \/ \E t \in Workers : RemoveEntry(t)
    \/ \E t \in Workers : LockRelease(t)

SpecStats == InitStats /\ [][NextStats]_vars

\* C38: concurrent Manager operations never deadlock: under a reader/writer
\* lock in which a waiting writer blocks new readers, in every interleaving of
\* Connection, HasConnection, ConnectionStats, AllStats, AddConnection and
\* RemoveConnection a goroutine that has not returned can take a step or some
\* other goroutine can; in particular AllStats, which takes the read lock and
\* calls ConnectionStats for each name, completes while an AddConnection or
\* RemoveConnection waits for the write lock.
C38_NoDeadlock ==
    (\E t \in Workers : pc[t] # "done") => ENABLED NextStats

\* ------------------------------------------------------------------ Migrator
\* migration IDs (the ledger orders them as its id column does), the lists of
\* distinct IDs a Migrator is given, and the number of Up, Down and Reset calls
MaxMigrations == 2
MaxRuns == 3
MigrationIDs == 1..MaxMigrations
MigrationLists ==
    {l \in UNION {[1..n -> MigrationIDs] : n \in 1..MaxMigrations} :
        \A i, j \in DOMAIN l : l[i] = l[j] => i = j}

\* the rows of the migrations table, in the order they were created
Recorded(ledger) == {ledger[i] : i \in 1..Len(ledger)}
Without(ledger, id) == SelectSeq(ledger, LAMBDA x : x # id)
MaxID(ids) == CHOOSE x \in ids : \A y \in ids : y <= x

\* the ways a call can go wrong: the first migration function it runs returns
\* an error, or its DELETE statements fail
UpFaults == {"none", "fn"}
DownFaults == {"none", "fn", "delete"}

\* the reads of a Migrator on handle h are rebound to a slave: the routing
\* callbacks are registered on master and the Count / Pluck query carries no
\* skip_routing context
readsRouted(h) ==
    /\ plugin
    /\ h = master
    /\ routeRead([ConnPool |-> Pool(h), skip |-> FALSE, by |-> "Migrate"], <<>>,
                 config, slaves, slaveIndex, 0).ConnPool # Pool(h)

\* the records a slave has not received yet, for a read rebound to a slave
Lags(h) == IF readsRouted(h) THEN SUBSET MigrationIDs ELSE {{}}

\* isMigrated: Count of the rows with the id, on the connection the read reaches
isMigrated(ledger, lag, id) == id \in Recorded(ledger) \ lag

\* Up from position i on: skip what isMigrated reports, run the Up function,
\* record the migration (the id is the primary key of the table)
RECURSIVE UpFrom(_, _, _, _, _, _)
UpFrom(list, i, ledger, ran, lag, fault) ==
    IF i > Len(list) THEN [ledger |-> ledger, ran |-> ran, err |-> ""]
    ELSE IF isMigrated(ledger, lag, list[i])
         THEN UpFrom(list, i + 1, ledger, ran, lag, fault)
    ELSE IF fault = "fn" /\ ran = <<>>
         THEN [ledger |-> ledger, ran |-> <<list[i]>>, err |-> "migration failed"]
    ELSE IF list[i] \in Recorded(ledger)
         THEN [ledger |-> ledger, ran |-> Append(ran, list[i]),
               err |-> "failed to record migration"]
    ELSE UpFrom(list, i + 1, Append(ledger, list[i]), Append(ran, list[i]), lag, fault)

\* Migrator.Up
Up(list, ledger, lag, fault) == UpFrom(list, 1, ledger, <<>>, lag, fault)

\* Migrator.Down: the first id of ORDER BY id DESC LIMIT 1, its Down function,
\* then DELETE FROM migrations WHERE id = ?
Down(list, table, ledger, lag, fault) ==
    IF ~table THEN [ledger |-> ledger, ran |-> <<>>, err |-> "no such table"]
    ELSE IF Recorded(ledger) \ lag = {}
         THEN [ledger |-> ledger, ran |-> <<>>, err |-> "no migrations to rollback"]
    ELSE LET lastMigration == MaxID(Recorded(ledger) \ lag) IN
         IF lastMigration \notin Recorded(list)
         THEN [ledger |-> ledger, ran |-> <<>>, err |-> "migration not found"]
         ELSE IF fault = "fn"
              THEN [ledger |-> ledger, ran |-> <<lastMigration>>, err |-> "rollback failed"]
         ELSE IF fault = "delete"
              THEN [ledger |-> ledger, ran |-> <<lastMigration>>, err |-> "delete failed"]
         ELSE [ledger |-> Without(ledger, lastMigration), ran |-> <<lastMigration>>,
               err |-> ""]

\* Reset from position i down to 1: for a migration isMigrated reports, its Down
\* function, then the DELETE whose error is not looked at
RECURSIVE ResetFrom(_, _, _, _, _, _, _)
ResetFrom(list, i, table, ledger, ran, lag, fault) ==
    IF i < 1 THEN [ledger |-> ledger, ran |-> ran, err |-> ""]
    ELSE IF ~(table /\ isMigrated(ledger, lag, list[i]))
         THEN ResetFrom(list, i - 1, table, ledger, ran, lag, fault)
    ELSE IF fault = "fn" /\ ran = <<>>
         THEN [ledger |-> ledger, ran |-> <<list[i]>>, err |-> "rollback failed"]
    ELSE ResetFrom(list, i - 1, table,
                   IF fault = "delete" THEN ledger ELSE Without(ledger, list[i]),
                   Append(ran, list[i]), lag, fault)

\* Migrator.Reset
Reset(list, table, ledger, lag, fault) ==
    ResetFrom(list, Len(list), table, ledger, <<>>, lag, fault)

\* the migration functions a call ran, added to the counts
Counted(counts, ran) ==
    [id \in DOMAIN counts |->
        counts[id] + Cardinality({i \in 1..Len(ran) : ran[i] = id})]

MigratorCall(op, out, fault) ==
    [op |-> op, err |-> out.err, ran |-> out.ran, pre |-> mig.ledger, fault |-> fault,
     routed |-> readsRouted(db)]

MigratorFrame == <<topoVars, selVars, stmt, concVars, textVars, envVars, regVars, retry,
                   health, pool>>

\* Migrator.Up on NewMigrator(m.db) holding the list (Manager.Migrate)
MigratorUp ==
    /\ mig.calls < MaxRuns
    /\ \E fault \in UpFaults, lag \in Lags(db) :
          LET out == Up(mig.list, mig.ledger, lag, fault) IN
          mig' = [mig EXCEPT !.table = TRUE, !.ledger = out.ledger,
                             !.ups = Counted(@, out.ran), !.calls = @ + 1, !.faulted = @ \/ fault # "none",
                             !.last = MigratorCall("Up", out, fault)]
    /\ UNCHANGED MigratorFrame

\* Migrator.Down
MigratorDown ==
    /\ mig.calls < MaxRuns
    /\ \E fault \in DownFaults, lag \in Lags(db) :
          LET out == Down(mig.list, mig.table, mig.ledger, lag, fault) IN
          mig' = [mig EXCEPT !.ledger = out.ledger, !.downs = Counted(@, out.ran),
                             !.calls = @ + 1, !.faulted = @ \/ fault # "none", !.last = MigratorCall("Down", out, fault)]
    /\ UNCHANGED MigratorFrame

\* Migrator.Reset
MigratorReset ==
    /\ mig.calls < MaxRuns
    /\ \E fault \in DownFaults, lag \in Lags(db) :
          LET out == Reset(mig.list, mig.table, mig.ledger, lag, fault) IN
          mig' = [mig EXCEPT !.ledger = out.ledger, !.downs = Counted(@, out.ran),
                             !.calls = @ + 1, !.faulted = @ \/ fault # "none", !.last = MigratorCall("Reset", out, fault)]
    /\ UNCHANGED MigratorFrame

\* a Migrator on the primary of a plain Manager, or of one with read/write
\* splitting, auto-routing and one slave; the ledger is empty
InitMigrator ==
    /\ config \in {c \in Configs :
                     /\ c.SlaveStrategy = "round-robin" /\ ~c.MasterHost
                     /\ \/ ~c.ReadWriteSplitting /\ c.AutoRouting /\ c.Slaves = <<>>
                        \/ c.ReadWriteSplitting /\ c.AutoRouting
                           /\ c.Slaves = <<[Weight |-> 0]>>}
    /\ reach = [i \in 1..Len(config.Slaves) |-> TRUE]
    /\ PlainEnv
    /\ Constructed
    /\ connMu = FreeRW
    /\ reg = NoRegCall
    /\ retry = NoRetry
    /\ health = NoHealth
    /\ pool = NoPool
    /\ \E list \in MigrationLists :
          mig = [NoMigrator EXCEPT !.list = list,
                                   !.ups = [id \in MigrationIDs |-> 0],
                                   !.downs = [id \in MigrationIDs |-> 0]]
    /\ slaveIndex = 0
    /\ nSelect = 0
    /\ last = NoCall
    /\ stmt = [ConnPool |-> Pool(master), skip |-> FALSE, by |-> "DB"]
    /\ NoGoroutines
    /\ NoText

NextMigrator ==
    \/ MigratorUp
    \/ MigratorDown
    \/ MigratorReset

SpecMigrator == InitMigrator /\ [][NextMigrator]_vars

\* the position of a migration in the list
Position(list, id) == CHOOSE i \in 1..Len(list) : list[i] = id

\* the records were created in list order
InListOrder(list, ledger) ==
    /\ Recorded(ledger) \subseteq Recorded(list)
    /\ \A i, j \in 1..Len(ledger) :
          i < j => Position(list, ledger[i]) < Position(list, ledger[j])

\* the migrations of the list that are recorded, last of the list first
RECURSIVE AppliedReversed(_, _, _)
AppliedReversed(list, i, ledger) ==
    IF i < 1 THEN <<>>
    ELSE IF list[i] \in Recorded(ledger)
         THEN <<list[i]>> \o AppliedReversed(list, i - 1, ledger)
    ELSE AppliedReversed(list, i - 1, ledger)

\* C31: Migrator.Up is idempotent: an Up run (Manager.Migrate with the same list)
\* made when every migration of the list is recorded runs no migration's Up
\* function again and leaves the ledger unchanged; after any number of Up runs
\* in which nothing failed the ledger holds exactly one record per migration of
\* the list and each Up function ran exactly once.
C31_UpIsIdempotent ==
    /\ (mig.last.op = "Up" /\ mig.last.fault = "none"
        /\ Recorded(mig.list) \subseteq Recorded(mig.last.pre)) =>
           (mig.last.ran = <<>> /\ mig.ledger = mig.last.pre)
    /\ (mig.last.op = "Up" /\ ~mig.faulted
        /\ \A id \in MigrationIDs : mig.downs[id] = 0) =>
           /\ Recorded(mig.ledger) = Recorded(mig.list)
           /\ Len(mig.ledger) = Len(mig.list)
           /\ \A id \in Recorded(mig.list) : mig.ups[id] = 1

\* C32: after Up applied migrations of the list in list order (for any list of
\* distinct IDs), one Down runs the Down function of exactly the most recently
\* applied migration and removes exactly its record, so k records become k-1;
\* with an empty ledger Down returns an error and runs nothing.
C32_DownRollsBackLast ==
    (mig.last.op = "Down" /\ mig.last.fault = "none") =>
        IF mig.last.pre = <<>>
        THEN mig.last.err # "" /\ mig.last.ran = <<>> /\ mig.ledger = <<>>
        ELSE InListOrder(mig.list, mig.last.pre) =>
                LET applied == mig.last.pre[Len(mig.last.pre)] IN
                /\ mig.last.ran = <<applied>>
                /\ mig.ledger = Without(mig.last.pre, applied)
                /\ Len(mig.ledger) = Len(mig.last.pre) - 1

\* C33: Reset runs the Down function of every applied migration of the list, in
\* reverse list order, and when it returns without error the ledger contains
\* no record of any migration of the list.
C33_ResetClearsLedger ==
    (mig.last.op = "Reset" /\ mig.last.err = "") =>
        /\ mig.last.ran = AppliedReversed(mig.list, Len(mig.list), mig.last.pre)
        /\ Recorded(mig.ledger) \cap Recorded(mig.list) = {}

====
